---- MODULE Spec2Model ----
(***************************************************************************)
(* Model of the normalisation-by-evaluation semantics of the Fathom core   *)
(* language (fathom/src/core/semantics.rs): values, closures, evaluation,  *)
(* eliminations, primitive steps, forcing of metavariables, quotation and  *)
(* conversion checking.                                                    *)
(*                                                                         *)
(* Spans and binder names carry no meaning for evaluation or conversion    *)
(* and are left out of terms and values, so terms are compared up to the   *)
(* names of their binders.  A panic (panic_any(Error::..)) is the pseudo   *)
(* value [tag |-> "Abort"], which every operation passes on.               *)
(***************************************************************************)
EXTENDS Integers, Sequences, FiniteSets, TLC

VARIABLES
    item_exprs,        \* ElimEnv::item_exprs, the item table
    meta_exprs,        \* ElimEnv::meta_exprs, the metavariable solutions
    local_exprs,       \* EvalEnv::local_exprs, the local environment
    term0, term1,      \* the core terms handed to the operations
    value0, value1,    \* the values held by the caller
    op,                \* the operation that ran last
    out,               \* what that operation returned
    overflow_checks    \* build profile: are arithmetic overflow checks on

vars == <<item_exprs, meta_exprs, local_exprs, term0, term1, value0, value1,
          op, out, overflow_checks>>

(***************************************************************************)
(* Fixed-width integers.  The host types u8..u64 and i8..i64 do not fit    *)
(* the integers of TLC, so a mathematical integer is a sign and a          *)
(* magnitude, the magnitude a little-endian sequence of limbs without      *)
(* leading zero limbs.                                                     *)
(***************************************************************************)
LimbBase == 2 ^ 8
LimbBits == 4 + 4

RECURSIVE NatNorm(_)
NatNorm(a) ==
    IF a = <<>> THEN <<>>
    ELSE IF a[Len(a)] = 0 THEN NatNorm(SubSeq(a, 1, Len(a) - 1))
    ELSE a

RECURSIVE NatOf(_)
NatOf(n) == IF n = 0 THEN <<>> ELSE <<n % LimbBase>> \o NatOf(n \div LimbBase)

Limb(a, i) == IF i <= Len(a) THEN a[i] ELSE 0

RECURSIVE NatCmpFrom(_, _, _)
NatCmpFrom(a, b, i) ==
    IF i = 0 THEN 0
    ELSE IF a[i] < b[i] THEN 0 - 1
    ELSE IF a[i] > b[i] THEN 1
    ELSE NatCmpFrom(a, b, i - 1)

\* -1, 0 or 1 as a is below, equal to or above b
NatCmp(a, b) ==
    IF Len(a) < Len(b) THEN 0 - 1
    ELSE IF Len(a) > Len(b) THEN 1
    ELSE NatCmpFrom(a, b, Len(a))

NatLe(a, b) == NatCmp(a, b) <= 0
NatLt(a, b) == NatCmp(a, b) < 0

RECURSIVE NatAddFrom(_, _, _, _)
NatAddFrom(a, b, i, carry) ==
    IF i > Len(a) /\ i > Len(b)
    THEN (IF carry = 0 THEN <<>> ELSE <<carry>>)
    ELSE LET s == Limb(a, i) + Limb(b, i) + carry
         IN  <<s % LimbBase>> \o NatAddFrom(a, b, i + 1, s \div LimbBase)

NatAdd(a, b) == NatAddFrom(a, b, 1, 0)

RECURSIVE NatSubFrom(_, _, _, _)
NatSubFrom(a, b, i, borrow) ==
    IF i > Len(a) THEN <<>>
    ELSE LET d == Limb(a, i) - Limb(b, i) - borrow
         IN  IF d < 0
             THEN <<d + LimbBase>> \o NatSubFrom(a, b, i + 1, 1)
             ELSE <<d>> \o NatSubFrom(a, b, i + 1, 0)

\* a - b for b <= a
NatSub(a, b) == NatNorm(NatSubFrom(a, b, 1, 0))

RECURSIVE NatMulLimbFrom(_, _, _, _)
NatMulLimbFrom(a, d, i, carry) ==
    IF i > Len(a) THEN (IF carry = 0 THEN <<>> ELSE <<carry>>)
    ELSE LET p == a[i] * d + carry
         IN  <<p % LimbBase>> \o NatMulLimbFrom(a, d, i + 1, p \div LimbBase)

RECURSIVE NatMulFrom(_, _, _)
NatMulFrom(a, b, i) ==
    IF i > Len(b) THEN <<>>
    ELSE NatAdd(NatMulLimbFrom(a, b[i], 1, 0), <<0>> \o NatMulFrom(a, b, i + 1))

NatMul(a, b) == NatNorm(NatMulFrom(a, b, 1))

\* bit i (from 0) of a
NatBit(a, i) == (Limb(a, (i \div LimbBits) + 1) \div (2 ^ (i % LimbBits))) % 2

NatBitLen(a) == Len(a) * LimbBits

\* the number whose bits 0..n-1 are bit(0)..bit(n-1), n a multiple of LimbBits
NatOfBits(bit(_), n) ==
    NatNorm([j \in 1..(n \div LimbBits) |->
               LET at(k) == bit((j - 1) * LimbBits + k) * (2 ^ k)
               IN  at(0) + at(1) + at(2) + at(3) + at(4) + at(5) + at(6) + at(7)])

NatPow2(k) == [i \in 1..(k \div LimbBits) |-> 0] \o <<2 ^ (k % LimbBits)>>

NatMulLimb(a, d) == NatNorm(NatMulLimbFrom(a, d, 1, 0))

\* the largest limb d with d * b <= r, for b # 0 and r < LimbBase * b, found
\* one bit at a time from the top
RECURSIVE NatQuotLimbFrom(_, _, _, _)
NatQuotLimbFrom(r, b, d, bit) ==
    IF bit = 0 THEN d
    ELSE IF NatLe(NatMulLimb(b, d + bit), r)
    THEN NatQuotLimbFrom(r, b, d + bit, bit \div 2)
    ELSE NatQuotLimbFrom(r, b, d, bit \div 2)
NatQuotLimb(r, b) ==
    IF NatLt(r, b) THEN 0 ELSE NatQuotLimbFrom(r, b, 0, LimbBase \div 2)

\* one step of long division: bring down the next limb of the dividend
NatDivStep(prev, limb, b) ==
    IF prev.rem = <<>> /\ limb = 0
    THEN [quot |-> (IF prev.quot = <<>> THEN <<>> ELSE <<0>> \o prev.quot),
          rem |-> <<>>]
    ELSE LET r == NatNorm(<<limb>> \o prev.rem)
             d == NatQuotLimb(r, b)
         IN  [quot |-> NatNorm(<<d>> \o prev.quot),
              rem |-> NatSub(r, NatMulLimb(b, d))]

\* long division, one limb of the dividend at a time, from the top
RECURSIVE NatDivModFrom(_, _, _)
NatDivModFrom(a, b, i) ==
    IF i > Len(a) THEN [quot |-> <<>>, rem |-> <<>>]
    ELSE NatDivStep(NatDivModFrom(a, b, i + 1), a[i], b)

\* quotient and remainder of a by b, for b # 0
NatDivMod(a, b) == NatDivModFrom(a, b, 1)

\* Mathematical integers
Int_(neg, mag) == [neg |-> neg /\ mag # <<>>, mag |-> mag]
IntOf(n) == IF n < 0 THEN Int_(TRUE, NatOf(0 - n)) ELSE Int_(FALSE, NatOf(n))
IntNeg(x) == Int_(~x.neg, x.mag)
IntAbs(x) == Int_(FALSE, x.mag)
IntAdd(x, y) ==
    IF x.neg = y.neg THEN Int_(x.neg, NatAdd(x.mag, y.mag))
    ELSE IF NatLe(y.mag, x.mag) THEN Int_(x.neg, NatSub(x.mag, y.mag))
    ELSE Int_(y.neg, NatSub(y.mag, x.mag))
IntSub(x, y) == IntAdd(x, IntNeg(y))
IntMul(x, y) == Int_(x.neg # y.neg, NatMul(x.mag, y.mag))
\* the quotient rounded towards zero, for y # 0
IntDiv(x, y) == Int_(x.neg # y.neg, NatDivMod(x.mag, y.mag).quot)
IntLe(x, y) ==
    IF x.neg /\ ~y.neg THEN TRUE
    ELSE IF ~x.neg /\ y.neg THEN FALSE
    ELSE IF x.neg THEN NatLe(y.mag, x.mag)
    ELSE NatLe(x.mag, y.mag)
IntLt(x, y) == IntLe(x, y) /\ x # y
IntZero == IntOf(0)
IntPow2(k) == Int_(FALSE, NatPow2(k))


(***************************************************************************)
(* Constants (core::Const) and the fixed-width host integers.              *)
(***************************************************************************)
Widths == {8, 16, 32, 64}

UIntTy(w) == [signed |-> FALSE, w |-> w]
SIntTy(w) == [signed |-> TRUE, w |-> w]
BoolTy == [signed |-> FALSE, w |-> 1]

\* Const::U8(x, style) .. Const::U64(x, style), Const::S8(x) .. Const::S64(x)
\* and Const::Bool(b); a signed constant and a boolean carry no style
ConstU(w, x, style) == [ty |-> UIntTy(w), val |-> x, style |-> style]
ConstS(w, x) == [ty |-> SIntTy(w), val |-> x, style |-> "None"]
ConstBool(b) == [ty |-> BoolTy, val |-> IF b THEN IntOf(1) ELSE IntZero, style |-> "None"]

UIntStyles == {"Decimal", "Hex", "Binary", "Ascii"}

\* UIntStyle::merge: equal styles are kept, different styles give Decimal
UIntStyleMerge(left, right) == IF left = right THEN left ELSE "Decimal"

\* impl PartialEq for Const: the numeric style is not compared
ConstEq(const0, const1) == const0.ty = const1.ty /\ const0.val = const1.val

UIntMax(w) == IntSub(IntPow2(w), IntOf(1))
SIntMin(w) == IntNeg(IntPow2(w - 1))
SIntMax(w) == IntSub(IntPow2(w - 1), IntOf(1))
TyMin(ty) == IF ty.signed THEN SIntMin(ty.w) ELSE IntZero
TyMax(ty) == IF ty.signed THEN SIntMax(ty.w) ELSE UIntMax(ty.w)
InTy(ty, x) == IntLe(TyMin(ty), x) /\ IntLe(x, TyMax(ty))

\* Option::None; Some(v) of a value or a term is v itself, Some(x) of a host
\* integer is [tag |-> "Some", val |-> x]
None == [tag |-> "None"]
IsNone(x) == x.tag = "None"

\* a mathematical integer as an Option of the host integer type
Checked(ty, x) == IF InTy(ty, x) THEN [tag |-> "Some", val |-> x] ELSE None

\* {integer}::wrapping_add in place of checked_add: the sum modulo 2^w
wrapping_add(ty, x, y) ==
    LET sum == IntAdd(x, y)
    IN  [tag |-> "Some",
         val |-> IF IntLt(TyMax(ty), sum) THEN IntSub(sum, IntPow2(ty.w))
                 ELSE IF IntLt(sum, TyMin(ty)) THEN IntAdd(sum, IntPow2(ty.w))
                 ELSE sum]

\* {integer}::checked_add, checked_sub, checked_mul, checked_div, checked_neg
checked_add(ty, x, y) == Checked(ty, IntAdd(x, y))
checked_sub(ty, x, y) == Checked(ty, IntSub(x, y))
checked_mul(ty, x, y) == Checked(ty, IntMul(x, y))
checked_div(ty, x, y) == IF y = IntZero THEN None ELSE Checked(ty, IntDiv(x, y))
checked_neg(ty, x) == Checked(ty, IntNeg(x))

\* a shift amount (a u8 widened by u32::from) as a number of bit positions
ShiftAmount(y) == IF y.mag = <<>> THEN 0 ELSE y.mag[1]

\* the bits of x moved up by n places, those moved past the width dropped
ShlBits(w, x, n) ==
    Int_(FALSE, NatOfBits(LAMBDA i : IF i >= n THEN NatBit(x.mag, i - n) ELSE 0, w))
\* the bits of x moved down by n places
ShrBits(w, x, n) ==
    Int_(FALSE, NatOfBits(LAMBDA i : IF i + n < w THEN NatBit(x.mag, i + n) ELSE 0, w))

\* u{N}::wrapping_shl in place of checked_shl: the amount modulo the width
wrapping_shl(ty, x, y) ==
    [tag |-> "Some", val |-> ShlBits(ty.w, x, ShiftAmount(y) % ty.w)]

\* u{N}::checked_shl, checked_shr: None when the amount reaches the width
checked_shl(ty, x, y) ==
    IF ShiftAmount(y) < ty.w
    THEN [tag |-> "Some", val |-> ShlBits(ty.w, x, ShiftAmount(y))] ELSE None
checked_shr(ty, x, y) ==
    IF ShiftAmount(y) < ty.w
    THEN [tag |-> "Some", val |-> ShrBits(ty.w, x, ShiftAmount(y))] ELSE None

\* i{N}::abs is not checked: on i{N}::MIN the negation overflows, which is a
\* panic when overflow checks are compiled in and wraps to i{N}::MIN when not
Overflow == [tag |-> "Abort", err |-> "ArithmeticOverflow"]
int_abs(checks, ty, x) ==
    IF x = TyMin(ty) THEN (IF checks THEN Overflow ELSE [tag |-> "Some", val |-> x])
    ELSE [tag |-> "Some", val |-> IntAbs(x)]

\* i{N}::unsigned_abs
unsigned_abs(x) == [tag |-> "Some", val |-> IntAbs(x)]

\* u{N}::not, bitand, bitor, bitxor
BitsOf2(w, x, y, f(_, _)) ==
    [tag |-> "Some",
     val |-> Int_(FALSE, NatOfBits(LAMBDA i : f(NatBit(x.mag, i), NatBit(y.mag, i)), w))]
uint_not(ty, x) == BitsOf2(ty.w, x, x, LAMBDA a, b : 1 - a)
uint_bitand(ty, x, y) == BitsOf2(ty.w, x, y, LAMBDA a, b : a * b)
uint_bitor(ty, x, y) == BitsOf2(ty.w, x, y, LAMBDA a, b : a + b - a * b)
uint_bitxor(ty, x, y) == BitsOf2(ty.w, x, y, LAMBDA a, b : (a + b) % 2)


(***************************************************************************)
(* Primitives (core::Prim).  A primitive is its family, its width where    *)
(* the family has one per width, and its operation: U8Add is               *)
(* PrimU(8, "Add"), FormatU16Be is PrimW("FormatU", 16, "Be").             *)
(***************************************************************************)
Prim0(name) == [fam |-> name, w |-> 0, op |-> ""]
PrimW(fam, w, name) == [fam |-> fam, w |-> w, op |-> name]
PrimU(w, name) == PrimW("U", w, name)
PrimS(w, name) == PrimW("S", w, name)
PrimBool(name) == PrimW("Bool", 0, name)

(***************************************************************************)
(* Terms (core::Term)                                                      *)
(***************************************************************************)
Term_ItemVar(var) == [tag |-> "ItemVar", var |-> var]
Term_LocalVar(var) == [tag |-> "LocalVar", var |-> var]
Term_MetaVar(var) == [tag |-> "MetaVar", var |-> var]
Term_InsertedMeta(var, infos) == [tag |-> "InsertedMeta", var |-> var, infos |-> infos]
Term_Ann(expr, type) == [tag |-> "Ann", expr |-> expr, type |-> type]
Term_Let(def_type, def_expr, body_expr) ==
    [tag |-> "Let", def_type |-> def_type, def_expr |-> def_expr, body_expr |-> body_expr]
Term_Universe == [tag |-> "Universe"]
Term_FunType(param_type, body_type) ==
    [tag |-> "FunType", param_type |-> param_type, body_type |-> body_type]
Term_FunLit(body_expr) == [tag |-> "FunLit", body_expr |-> body_expr]
Term_FunApp(head_expr, arg_expr) ==
    [tag |-> "FunApp", head_expr |-> head_expr, arg_expr |-> arg_expr]
Term_RecordType(labels, types) == [tag |-> "RecordType", labels |-> labels, types |-> types]
Term_RecordLit(labels, exprs) == [tag |-> "RecordLit", labels |-> labels, exprs |-> exprs]
Term_RecordProj(head_expr, label) ==
    [tag |-> "RecordProj", head_expr |-> head_expr, label |-> label]
Term_ArrayLit(exprs) == [tag |-> "ArrayLit", exprs |-> exprs]
Term_FormatRecord(labels, formats) ==
    [tag |-> "FormatRecord", labels |-> labels, formats |-> formats]
Term_FormatCond(label, format, cond) ==
    [tag |-> "FormatCond", label |-> label, format |-> format, cond |-> cond]
Term_FormatOverlap(labels, formats) ==
    [tag |-> "FormatOverlap", labels |-> labels, formats |-> formats]
Term_Prim(prim) == [tag |-> "Prim", prim |-> prim]
Term_ConstLit(const) == [tag |-> "ConstLit", const |-> const]
\* branches: a sequence of [pattern |-> const, body |-> term]; default_expr: a term or None
Term_ConstMatch(head_expr, branches, default_expr) ==
    [tag |-> "ConstMatch", head_expr |-> head_expr, branches |-> branches,
     default_expr |-> default_expr]

(***************************************************************************)
(* Values (Value, Head, Elim, Closure, Telescope, Branches)                *)
(***************************************************************************)
Head_Prim(prim) == [tag |-> "Prim", prim |-> prim]
Head_LocalVar(var) == [tag |-> "LocalVar", var |-> var]
Head_MetaVar(var) == [tag |-> "MetaVar", var |-> var]

Elim_FunApp(arg_expr) == [tag |-> "FunApp", arg_expr |-> arg_expr]
Elim_RecordProj(label) == [tag |-> "RecordProj", label |-> label]
Elim_ConstMatch(branches) == [tag |-> "ConstMatch", branches |-> branches]

Closure(locals, term) == [local_exprs |-> locals, term |-> term]
Telescope(locals, terms) ==
    [local_exprs |-> locals, apply_repr |-> FALSE, terms |-> terms]
Branches(locals, pattern_branches, default_expr) ==
    [local_exprs |-> locals, pattern_branches |-> pattern_branches,
     default_expr |-> default_expr]

Value_Stuck(head, spine) == [tag |-> "Stuck", head |-> head, spine |-> spine]
Value_Universe == [tag |-> "Universe"]
Value_FunType(param_type, body_type) ==
    [tag |-> "FunType", param_type |-> param_type, body_type |-> body_type]
Value_FunLit(body_expr) == [tag |-> "FunLit", body_expr |-> body_expr]
Value_RecordType(labels, types) == [tag |-> "RecordType", labels |-> labels, types |-> types]
Value_RecordLit(labels, exprs) == [tag |-> "RecordLit", labels |-> labels, exprs |-> exprs]
Value_ArrayLit(exprs) == [tag |-> "ArrayLit", exprs |-> exprs]
Value_FormatRecord(labels, formats) ==
    [tag |-> "FormatRecord", labels |-> labels, formats |-> formats]
Value_FormatCond(label, format, cond) ==
    [tag |-> "FormatCond", label |-> label, format |-> format, cond |-> cond]
Value_FormatOverlap(labels, formats) ==
    [tag |-> "FormatOverlap", labels |-> labels, formats |-> formats]
Value_ConstLit(const) == [tag |-> "ConstLit", const |-> const]

\* Value::prim, Value::local_var, Value::meta_var
prim(p, params) == Value_Stuck(Head_Prim(p), [i \in 1..Len(params) |-> Elim_FunApp(params[i])])
local_var(level) == Value_Stuck(Head_LocalVar(level), <<>>)
meta_var(level) == Value_Stuck(Head_MetaVar(level), <<>>)

\* Telescope::apply_repr
apply_repr(telescope) == [telescope EXCEPT !.apply_repr = TRUE]

\* panic_any(Error::..)
Abort(err) == [tag |-> "Abort", err |-> err]
IsAbort(x) == x.tag = "Abort"

\* the first panic among the results of a left-to-right traversal, or None
FirstAbort(xs) ==
    IF \E i \in 1..Len(xs) : IsAbort(xs[i])
    THEN xs[CHOOSE i \in 1..Len(xs) : IsAbort(xs[i]) /\ \A j \in 1..(i - 1) : ~IsAbort(xs[j])]
    ELSE None

\* ElimEnv: the tables the semantics reads, borrowed immutably
ElimEnv(items, metas, checks) ==
    [item_exprs |-> items, meta_exprs |-> metas, overflow_checks |-> checks]

\* SliceEnv::get_level and SharedEnv::get_index; levels and indices count from 0
\* a lookup that counts the level from the newest entry, as an index is
get_level_from_newest(env, level) ==
    IF level < Len(env) THEN env[Len(env) - level] ELSE None

get_level(env, level) == IF level < Len(env) THEN env[level + 1] ELSE None
get_index(env, index) == IF index < Len(env) THEN env[Len(env) - index] ELSE None

\* EnvLen::level_to_index and EnvLen::next_level
level_to_index(len, level) == IF level < len THEN len - level - 1 ELSE 0 - 1
next_level(len) == len


(***************************************************************************)
(* Evaluation and elimination (EvalEnv, ElimEnv, prim_step).  E is the     *)
(* ElimEnv, env the local environment, oldest binding first.               *)
(***************************************************************************)

(***************************************************************************)
(* The operations of the semantics call one another; every call goes       *)
(* through Dispatch, which runs the body of the operation called.          *)
(***************************************************************************)
RECURSIVE Dispatch(_)
Call(name, args) == Dispatch([f |-> name, a |-> args])

eval(a, b, c) == Call("eval", <<a, b, c>>)
apply_local_infos_from(a, b, c, d, e) == Call("apply_local_infos_from", <<a, b, c, d, e>>)
fun_app(a, b, c) == Call("fun_app", <<a, b, c>>)
apply_closure(a, b, c) == Call("apply_closure", <<a, b, c>>)
const_match(a, b, c) == Call("const_match", <<a, b, c>>)
prim_step(a, b, c) == Call("prim_step", <<a, b, c>>)
array_find_from(a, b, c, d) == Call("array_find_from", <<a, b, c, d>>)
format_repr(a, b) == Call("format_repr", <<a, b>>)
apply_spine_from(a, b, c, d) == Call("apply_spine_from", <<a, b, c, d>>)
force(a, b) == Call("force", <<a, b>>)
quote(a, b, c, d) == Call("quote", <<a, b, c, d>>)
quote_head(a, b, c, d) == Call("quote_head", <<a, b, c, d>>)
quote_spine_from(a, b, c, d, e, f) == Call("quote_spine_from", <<a, b, c, d, e, f>>)
quote_branches(a, b, c, d) == Call("quote_branches", <<a, b, c, d>>)
quote_closure(a, b, c, d) == Call("quote_closure", <<a, b, c, d>>)
quote_telescope(a, b, c, d) == Call("quote_telescope", <<a, b, c, d>>)
unfold_metas(a, b, c) == Call("unfold_metas", <<a, b, c>>)
unfold_spine_metas(a, b, c) == Call("unfold_spine_metas", <<a, b, c>>)
unfold_telescope_metas(a, b, c) == Call("unfold_telescope_metas", <<a, b, c>>)
is_equal(a, b, c, d) == Call("is_equal", <<a, b, c, d>>)
is_equal_zip_from(a, b, c, d, e) == Call("is_equal_zip_from", <<a, b, c, d, e>>)
is_equal_spine_from(a, b, c, d, e) == Call("is_equal_spine_from", <<a, b, c, d, e>>)
is_equal_closures(a, b, c, d) == Call("is_equal_closures", <<a, b, c, d>>)
is_equal_telescopes_loop(a, b, c, d) == Call("is_equal_telescopes_loop", <<a, b, c, d>>)
is_equal_branches(a, b, c, d) == Call("is_equal_branches", <<a, b, c, d>>)
is_equal_fun_lit(a, b, c, d) == Call("is_equal_fun_lit", <<a, b, c, d>>)
is_equal_record_lit_from(a, b, c, d, e, f) == Call("is_equal_record_lit_from", <<a, b, c, d, e, f>>)

\* a pattern that reads the first n eliminations and ignores the rest
IsFunAppsPrefix(spine, n) == Len(spine) >= n /\ \A i \in 1..n : spine[i].tag = "FunApp"

\* step!: the spine is exactly n function applications
IsFunApps(spine, n) == Len(spine) = n /\ \A i \in 1..n : spine[i].tag = "FunApp"
\* const_step!: and every argument is a constant literal of the named type
IsConsts(spine, tys) ==
    /\ IsFunApps(spine, Len(tys))
    /\ \A i \in 1..Len(tys) :
          spine[i].arg_expr.tag = "ConstLit" /\ spine[i].arg_expr.const.ty = tys[i]
ConstArg(spine, i) == spine[i].arg_expr.const

\* the literal a const_step! builds; `?` on None leaves the step with None
const_result(opt, ty, style) ==
    IF opt.tag = "Some"
    THEN [tag |-> "ConstLit", const |-> [ty |-> ty, val |-> opt.val, style |-> style]]
    ELSE opt
bool_result(b) == [tag |-> "ConstLit", const |-> ConstBool(b)]

int_compare(name, x, y) ==
    CASE name = "Eq" -> x = y
      [] name = "Neq" -> x # y
      [] name = "Gt" -> IntLt(y, x)
      [] name = "Lt" -> IntLt(x, y)
      [] name = "Gte" -> IntLe(y, x)
      [] name = "Lte" -> IntLe(x, y)

CompareOps == {"Eq", "Neq", "Gt", "Lt", "Gte", "Lte"}

\* Prim::BoolEq .. Prim::BoolXor
prim_step_bool(name, spine) ==
    LET x == ConstArg(spine, 1).val = IntOf(1)
        y == ConstArg(spine, 2).val = IntOf(1)
    IN  CASE name = "Not" ->
               IF IsConsts(spine, <<BoolTy>>) THEN bool_result(~x) ELSE None
          [] name \in {"Eq", "Neq", "And", "Or", "Xor"} ->
               IF ~IsConsts(spine, <<BoolTy, BoolTy>>) THEN None
               ELSE bool_result(CASE name = "Eq" -> x = y
                                  [] name = "Neq" -> x # y
                                  [] name = "And" -> x /\ y
                                  [] name = "Or" -> x \/ y
                                  [] name = "Xor" -> x # y)
          [] OTHER -> None

\* Prim::U8Eq .. Prim::U64Xor
prim_step_uint(w, name, spine) ==
    LET ty == UIntTy(w)
        x == ConstArg(spine, 1)
        y == ConstArg(spine, 2)
        merged == UIntStyleMerge(x.style, y.style)
    IN  CASE name \in CompareOps ->
               IF IsConsts(spine, <<ty, ty>>)
               THEN bool_result(int_compare(name, x.val, y.val)) ELSE None
          [] name \in {"Add", "Sub", "Mul", "Div", "And", "Or", "Xor"} ->
               IF ~IsConsts(spine, <<ty, ty>>) THEN None
               ELSE const_result(CASE name = "Add" -> checked_add(ty, x.val, y.val)
                                   [] name = "Sub" -> checked_sub(ty, x.val, y.val)
                                   [] name = "Mul" -> checked_mul(ty, x.val, y.val)
                                   [] name = "Div" -> checked_div(ty, x.val, y.val)
                                   [] name = "And" -> uint_bitand(ty, x.val, y.val)
                                   [] name = "Or" -> uint_bitor(ty, x.val, y.val)
                                   [] name = "Xor" -> uint_bitxor(ty, x.val, y.val),
                                 ty, merged)
          [] name = "Not" ->
               IF ~IsConsts(spine, <<ty>>) THEN None
               ELSE const_result(uint_not(ty, x.val), ty,
                                 IF w = 8 THEN x.style ELSE "Decimal")
          [] name \in {"Shl", "Shr"} ->
               IF ~IsConsts(spine, <<ty, UIntTy(8)>>) THEN None
               ELSE const_result(IF name = "Shl" THEN checked_shl(ty, x.val, y.val)
                                 ELSE checked_shr(ty, x.val, y.val),
                                 ty, x.style)
          [] OTHER -> None

\* Prim::S8Eq .. Prim::S64UAbs
prim_step_sint(checks, w, name, spine) ==
    LET ty == SIntTy(w)
        x == ConstArg(spine, 1)
        y == ConstArg(spine, 2)
    IN  CASE name \in CompareOps ->
               IF IsConsts(spine, <<ty, ty>>)
               THEN bool_result(int_compare(name, x.val, y.val)) ELSE None
          [] name \in {"Add", "Sub", "Mul", "Div"} ->
               IF ~IsConsts(spine, <<ty, ty>>) THEN None
               ELSE const_result(CASE name = "Add" -> checked_add(ty, x.val, y.val)
                                   [] name = "Sub" -> checked_sub(ty, x.val, y.val)
                                   [] name = "Mul" -> checked_mul(ty, x.val, y.val)
                                   [] name = "Div" -> checked_div(ty, x.val, y.val),
                                 ty, "None")
          [] name = "Neg" ->
               IF ~IsConsts(spine, <<ty>>) THEN None
               ELSE const_result(checked_neg(ty, x.val), ty, "None")
          [] name = "Abs" ->
               IF ~IsConsts(spine, <<ty>>) THEN None
               ELSE const_result(int_abs(checks, ty, x.val), ty, "None")
          [] name = "UAbs" ->
               IF ~IsConsts(spine, <<ty>>) THEN None
               ELSE const_result(unsigned_abs(x.val), UIntTy(w), "Decimal")
          [] OTHER -> None

\* an index read from a literal of any integer type, signed ones included
array_index_any_sign(index) ==
    IF index.tag = "ConstLit" /\ index.const.ty.w \in Widths
    THEN LET mag == index.const.val.mag
         IN  [tag |-> "Some",
              val |-> CASE Len(mag) = 0 -> 0
                        [] Len(mag) = 1 -> mag[1]
                        [] Len(mag) = 2 -> mag[1] + LimbBase * mag[2]
                        [] OTHER -> LimbBase * LimbBase]
    ELSE None

\* the index of an Array{N}Index as a host usize, None when it is no
\* unsigned literal; an index past two limbs is past every array here
array_index(index) ==
    IF index.tag = "ConstLit" /\ ~index.const.ty.signed /\ index.const.ty.w \in Widths
    THEN LET mag == index.const.val.mag
         IN  [tag |-> "Some",
              val |-> CASE Len(mag) = 0 -> 0
                        [] Len(mag) = 1 -> mag[1]
                        [] Len(mag) = 2 -> mag[1] + LimbBase * mag[2]
                        [] OTHER -> LimbBase * LimbBase]
    ELSE None

\* a scan that passes over an element whose result is no true literal
array_find_skipping(E, pred, elems, i) ==
    IF i > Len(elems) THEN prim(Prim0("OptionNone"), <<>>)
    ELSE LET r == fun_app(E, pred, elems[i])
         IN  IF IsAbort(r) THEN r
             ELSE IF r.tag = "ConstLit" /\ r.const = ConstBool(TRUE)
             THEN prim(Prim0("OptionSome"), <<elems[i]>>)
             ELSE array_find_from(E, pred, elems, i + 1)

\* the loop of Array{N}Find over elems[i..]
semantics_array_find_from(E, pred, elems, i) ==
    IF i > Len(elems) THEN prim(Prim0("OptionNone"), <<>>)
    ELSE LET r == fun_app(E, pred, elems[i])
         IN  IF IsAbort(r) THEN r
             ELSE IF r.tag = "ConstLit" /\ r.const = ConstBool(TRUE)
             THEN prim(Prim0("OptionSome"), <<elems[i]>>)
             ELSE IF r.tag = "ConstLit" /\ r.const = ConstBool(FALSE)
             THEN array_find_from(E, pred, elems, i + 1)
             ELSE None

\* prim_step(prim)(env, spine): Some(value), None, or a panic
semantics_prim_step(E, p, spine) ==
    CASE p = Prim0("FormatRepr") ->
           IF IsFunApps(spine, 1) THEN format_repr(E, spine[1].arg_expr) ELSE None
      [] p.fam = "Bool" -> prim_step_bool(p.op, spine)
      [] p.fam = "U" -> prim_step_uint(p.w, p.op, spine)
      [] p.fam = "S" -> prim_step_sint(E.overflow_checks, p.w, p.op, spine)
      [] p = Prim0("OptionFold") ->
           IF ~IsFunApps(spine, 5) THEN None
           ELSE LET on_none == spine[3].arg_expr
                    on_some == spine[4].arg_expr
                    option == spine[5].arg_expr
                IN  IF ~(option.tag = "Stuck" /\ option.head.tag = "Prim") THEN None
                    ELSE IF option.head.prim = Prim0("OptionSome")
                            /\ IsFunApps(option.spine, 1)
                    THEN fun_app(E, on_some, option.spine[1].arg_expr)
                    ELSE IF option.head.prim = Prim0("OptionNone") /\ option.spine = <<>>
                    THEN on_none
                    ELSE None
      [] p.fam = "Array" /\ p.op = "Find" ->
           IF ~IsFunApps(spine, 4) THEN None
           ELSE IF spine[4].arg_expr.tag = "ArrayLit"
           THEN array_find_from(E, spine[3].arg_expr, spine[4].arg_expr.exprs, 1)
           ELSE None
      [] p.fam = "Array" /\ p.op = "Index" ->
           IF ~IsFunApps(spine, 4) THEN None
           ELSE IF spine[4].arg_expr.tag = "ArrayLit"
           THEN LET index == array_index(spine[3].arg_expr)
                    elems == spine[4].arg_expr.exprs
                IN  IF IsNone(index) THEN None
                    ELSE IF index.val < Len(elems) THEN elems[index.val + 1]
                    ELSE None
           ELSE None
      [] OTHER -> None


\* the position of a label among the labels, 0 when it is not there
LabelPosition(labels, label) ==
    IF \E i \in 1..Len(labels) : labels[i] = label
    THEN CHOOSE i \in 1..Len(labels) :
            labels[i] = label /\ \A j \in 1..(i - 1) : labels[j] # label
    ELSE 0

\* ElimEnv::record_proj
record_proj(head_expr, label) ==
    IF IsAbort(head_expr) THEN head_expr
    ELSE IF head_expr.tag = "RecordLit"
    THEN LET expr_index == LabelPosition(head_expr.labels, label)
         IN  IF expr_index = 0 \/ expr_index > Len(head_expr.exprs)
             THEN Abort("InvalidRecordProj")
             ELSE head_expr.exprs[expr_index]
    ELSE IF head_expr.tag = "Stuck"
    THEN Value_Stuck(head_expr.head, Append(head_expr.spine, Elim_RecordProj(label)))
    ELSE Abort("InvalidRecordProj")

\* EvalEnv::eval
EvalEnv_eval(E, env, term) ==
    CASE term.tag = "ItemVar" ->
           LET value == get_level(E.item_exprs, term.var)
           IN  IF IsNone(value) THEN Abort("UnboundItemVar") ELSE value
      [] term.tag = "LocalVar" ->
           LET value == get_index(env, term.var)
           IN  IF IsNone(value) THEN Abort("UnboundLocalVar") ELSE value
      [] term.tag = "MetaVar" ->
           IF term.var >= Len(E.meta_exprs) THEN Abort("UnboundMetaVar")
           ELSE IF IsNone(get_level(E.meta_exprs, term.var)) THEN meta_var(term.var)
           ELSE get_level(E.meta_exprs, term.var)
      [] term.tag = "InsertedMeta" ->
           apply_local_infos_from(E, env, eval(E, env, Term_MetaVar(term.var)),
                                  term.infos, 1)
      [] term.tag = "Ann" -> eval(E, env, term.expr)
      [] term.tag = "Let" ->
           LET def_expr == eval(E, env, term.def_expr)
           IN  IF IsAbort(def_expr) THEN def_expr
               ELSE eval(E, Append(env, def_expr), term.body_expr)
      [] term.tag = "Universe" -> Value_Universe
      [] term.tag = "FunType" ->
           LET param_type == eval(E, env, term.param_type)
           IN  IF IsAbort(param_type) THEN param_type
               ELSE Value_FunType(param_type, Closure(env, term.body_type))
      [] term.tag = "FunLit" -> Value_FunLit(Closure(env, term.body_expr))
      [] term.tag = "FunApp" ->
           LET head_expr == eval(E, env, term.head_expr)
           IN  IF IsAbort(head_expr) THEN head_expr
               ELSE fun_app(E, head_expr, eval(E, env, term.arg_expr))
      [] term.tag = "RecordType" ->
           Value_RecordType(term.labels, Telescope(env, term.types))
      [] term.tag = "RecordLit" ->
           LET exprs == [i \in 1..Len(term.exprs) |-> eval(E, env, term.exprs[i])]
           IN  IF IsNone(FirstAbort(exprs)) THEN Value_RecordLit(term.labels, exprs)
               ELSE FirstAbort(exprs)
      [] term.tag = "RecordProj" -> record_proj(eval(E, env, term.head_expr), term.label)
      [] term.tag = "ArrayLit" ->
           LET exprs == [i \in 1..Len(term.exprs) |-> eval(E, env, term.exprs[i])]
           IN  IF IsNone(FirstAbort(exprs)) THEN Value_ArrayLit(exprs)
               ELSE FirstAbort(exprs)
      [] term.tag = "FormatRecord" ->
           Value_FormatRecord(term.labels, Telescope(env, term.formats))
      [] term.tag = "FormatCond" ->
           LET format == eval(E, env, term.format)
           IN  IF IsAbort(format) THEN format
               ELSE Value_FormatCond(term.label, format, Closure(env, term.cond))
      [] term.tag = "FormatOverlap" ->
           Value_FormatOverlap(term.labels, Telescope(env, term.formats))
      [] term.tag = "Prim" -> prim(term.prim, <<>>)
      [] term.tag = "ConstLit" -> Value_ConstLit(term.const)
      [] term.tag = "ConstMatch" ->
           const_match(E, eval(E, env, term.head_expr),
                       Branches(env, term.branches, term.default_expr))

\* an application to every binding in scope, whatever its LocalInfo
apply_all_local_infos_from(E, env, head_expr, infos, i) ==
    IF i > Len(infos) \/ i > Len(env) \/ IsAbort(head_expr) THEN head_expr
    ELSE apply_local_infos_from(E, env, fun_app(E, head_expr, env[i]), infos, i + 1)

\* EvalEnv::apply_local_infos: the infos zipped with the environment
EvalEnv_apply_local_infos_from(E, env, head_expr, infos, i) ==
    IF i > Len(infos) \/ i > Len(env) \/ IsAbort(head_expr) THEN head_expr
    ELSE apply_local_infos_from(E, env,
             IF infos[i] = "Param" THEN fun_app(E, head_expr, env[i]) ELSE head_expr,
             infos, i + 1)

\* a body evaluated in the captured environment alone
apply_closure_unextended(E, closure, value) ==
    eval(E, closure.local_exprs, closure.term)

\* ElimEnv::apply_closure
ElimEnv_apply_closure(E, closure, value) ==
    eval(E, Append(closure.local_exprs, value), closure.term)

\* ElimEnv::fun_app
ElimEnv_fun_app(E, head_expr, arg_expr) ==
    IF IsAbort(head_expr) THEN head_expr
    ELSE IF IsAbort(arg_expr) THEN arg_expr
    ELSE IF head_expr.tag = "FunLit" THEN apply_closure(E, head_expr.body_expr, arg_expr)
    ELSE IF head_expr.tag = "Stuck"
    THEN LET spine == Append(head_expr.spine, Elim_FunApp(arg_expr))
             stuck == Value_Stuck(head_expr.head, spine)
         IN  IF head_expr.head.tag = "Prim"
             THEN LET step == prim_step(E, head_expr.head.prim, spine)
                  IN  IF IsNone(step) THEN stuck ELSE step
             ELSE stuck
    ELSE Abort("InvalidFunctionApp")

\* a match whose default branch does not bind the scrutinee
const_match_unbound_default(E, head_expr, branches) ==
    IF IsAbort(head_expr) THEN head_expr
    ELSE IF head_expr.tag = "ConstLit"
    THEN LET pats == branches.pattern_branches
             hits == {i \in 1..Len(pats) : ConstEq(head_expr.const, pats[i].pattern)}
         IN  IF hits # {}
             THEN eval(E, branches.local_exprs,
                       pats[CHOOSE i \in hits : \A j \in hits : i <= j].body)
             ELSE IF IsNone(branches.default_expr) THEN Abort("MissingConstDefault")
             ELSE eval(E, branches.local_exprs, branches.default_expr)
    ELSE IF head_expr.tag = "Stuck"
    THEN Value_Stuck(head_expr.head, Append(head_expr.spine, Elim_ConstMatch(branches)))
    ELSE Abort("InvalidConstMatch")

\* ElimEnv::const_match
ElimEnv_const_match(E, head_expr, branches) ==
    IF IsAbort(head_expr) THEN head_expr
    ELSE IF head_expr.tag = "ConstLit"
    THEN LET pats == branches.pattern_branches
             hits == {i \in 1..Len(pats) : ConstEq(head_expr.const, pats[i].pattern)}
         IN  IF hits # {}
             THEN eval(E, branches.local_exprs,
                       pats[CHOOSE i \in hits : \A j \in hits : i <= j].body)
             ELSE IF IsNone(branches.default_expr) THEN Abort("MissingConstDefault")
             ELSE eval(E, Append(branches.local_exprs, head_expr), branches.default_expr)
    ELSE IF head_expr.tag = "Stuck"
    THEN Value_Stuck(head_expr.head, Append(head_expr.spine, Elim_ConstMatch(branches)))
    ELSE Abort("InvalidConstMatch")

\* an unsigned type for every atomic format, whatever its signedness
atomic_repr_unsigned(p) == PrimW("U", p.w, "Type")

\* the type that represents an atomic format: the type of its width and
\* signedness, for either endianness
atomic_repr(p) ==
    PrimW(CASE p.fam = "FormatU" -> "U"
            [] p.fam = "FormatS" -> "S"
            [] p.fam = "FormatF" -> "F", p.w, "Type")

\* the arm of format_repr for a primitive head
format_repr_prim(E, format, p, spine) ==
    LET arg(i) == spine[i].arg_expr
        keep == prim(Prim0("FormatRepr"), <<format>>)
        wrap(q, params) ==
            IF IsNone(FirstAbort(params)) THEN prim(q, params) ELSE FirstAbort(params)
    IN  CASE p.fam \in {"FormatU", "FormatS", "FormatF"} ->
               IF spine = <<>> THEN prim(atomic_repr(p), <<>>) ELSE keep
          [] p.fam = "FormatArray" ->
               IF IsFunApps(spine, 2)
               THEN wrap(PrimW("Array", p.w, "Type"), <<arg(1), format_repr(E, arg(2))>>)
               ELSE keep
          [] p.fam = "FormatLimit" ->
               IF Len(spine) = 2 /\ spine[2].tag = "FunApp"
               THEN format_repr(E, arg(2)) ELSE keep
          [] p = Prim0("FormatRepeatUntilEnd") ->
               IF IsFunApps(spine, 1)
               THEN wrap(Prim0("ArrayType"), <<format_repr(E, arg(1))>>) ELSE keep
          [] p = Prim0("FormatLink") ->
               IF Len(spine) = 2 /\ spine[2].tag = "FunApp"
               THEN prim(Prim0("RefType"), <<arg(2)>>) ELSE keep
          [] p = Prim0("FormatDeref") ->
               IF Len(spine) = 2 /\ spine[1].tag = "FunApp"
               THEN format_repr(E, arg(1)) ELSE keep
          [] p = Prim0("FormatStreamPos") ->
               IF spine = <<>> THEN prim(Prim0("PosType"), <<>>) ELSE keep
          [] p \in {Prim0("FormatSucceed"), Prim0("FormatUnwrap")} ->
               IF Len(spine) = 2 /\ spine[1].tag = "FunApp" THEN arg(1) ELSE keep
          [] p = Prim0("FormatFail") ->
               IF spine = <<>> THEN prim(Prim0("VoidType"), <<>>) ELSE keep
          [] p = Prim0("ReportedError") ->
               IF spine = <<>> THEN prim(Prim0("ReportedError"), <<>>) ELSE keep
          [] OTHER -> keep

\* a format_repr that has the arm for primitive heads only
format_repr_prim_only(E, format) ==
    IF IsAbort(format) THEN format
    ELSE IF format.tag = "Stuck" /\ format.head.tag = "Prim"
    THEN format_repr_prim(E, format, format.head.prim, format.spine)
    ELSE Abort("InvalidFormatRepr")

\* ElimEnv::format_repr
ElimEnv_format_repr(E, format) ==
    IF IsAbort(format) THEN format
    ELSE IF format.tag \in {"FormatRecord", "FormatOverlap"}
    THEN Value_RecordType(format.labels, apply_repr(format.formats))
    ELSE IF format.tag = "FormatCond" THEN format_repr(E, format.format)
    ELSE IF format.tag = "Stuck"
    THEN IF format.head.tag = "Prim"
         THEN format_repr_prim(E, format, format.head.prim, format.spine)
         ELSE prim(Prim0("FormatRepr"), <<format>>)
    ELSE Abort("InvalidFormatRepr")

\* ElimEnv::apply_spine
ElimEnv_apply_spine_from(E, head_expr, spine, i) ==
    IF i > Len(spine) \/ IsAbort(head_expr) THEN head_expr
    ELSE apply_spine_from(E,
             CASE spine[i].tag = "FunApp" -> fun_app(E, head_expr, spine[i].arg_expr)
               [] spine[i].tag = "RecordProj" -> record_proj(head_expr, spine[i].label)
               [] spine[i].tag = "ConstMatch" ->
                    const_match(E, head_expr, spine[i].branches),
             spine, i + 1)

\* the eliminations of the spine applied from the last to the first
apply_spine_reversed(E, head_expr, spine) ==
    apply_spine_from(E, head_expr,
                     [i \in 1..Len(spine) |-> spine[Len(spine) + 1 - i]], 1)

apply_spine(E, head_expr, spine) == apply_spine_from(E, head_expr, spine, 1)

\* a force that follows one solution only, in place of the loop of force
force_once(E, value) ==
    IF IsAbort(value) THEN value
    ELSE IF value.tag = "Stuck" /\ value.head.tag = "MetaVar"
    THEN IF value.head.var >= Len(E.meta_exprs) THEN Abort("UnboundMetaVar")
         ELSE IF IsNone(get_level(E.meta_exprs, value.head.var)) THEN value
         ELSE apply_spine(E, get_level(E.meta_exprs, value.head.var), value.spine)
    ELSE value

\* ElimEnv::force
ElimEnv_force(E, value) ==
    IF IsAbort(value) THEN value
    ELSE IF value.tag = "Stuck" /\ value.head.tag = "MetaVar"
    THEN IF value.head.var >= Len(E.meta_exprs) THEN Abort("UnboundMetaVar")
         ELSE IF IsNone(get_level(E.meta_exprs, value.head.var)) THEN value
         ELSE force(E, apply_spine(E, get_level(E.meta_exprs, value.head.var), value.spine))
    ELSE value

\* a split that forgets Telescope::apply_repr
split_telescope_raw(E, telescope) ==
    IF telescope.terms = <<>> THEN None
    ELSE eval(E, telescope.local_exprs, Head(telescope.terms))

\* ElimEnv::split_telescope: the first value, None for the empty telescope
split_telescope(E, telescope) ==
    IF telescope.terms = <<>> THEN None
    ELSE LET value == eval(E, telescope.local_exprs, Head(telescope.terms))
         IN  IF telescope.apply_repr THEN format_repr(E, value) ELSE value
\* and its continuation: the rest of the telescope, the previous value bound
next_telescope(telescope, previous_value) ==
    [telescope EXCEPT !.local_exprs = Append(@, previous_value), !.terms = Tail(@)]


\* ElimEnv::split_branches on a non-empty list of pattern branches: the
\* pattern with its evaluated body
split_branch(E, branches) ==
    [pattern |-> Head(branches.pattern_branches).pattern,
     body |-> eval(E, branches.local_exprs, Head(branches.pattern_branches).body)]
next_branches(branches) == [branches EXCEPT !.pattern_branches = Tail(@)]

(***************************************************************************)
(* Quotation (QuoteEnv).  len is QuoteEnv::local_exprs, unfold is          *)
(* QuoteEnv::unfold_metas.  A list result is [tag |-> "Ok", list |-> ..].  *)
(***************************************************************************)
OkList(list) == [tag |-> "Ok", list |-> list]


\* the terms of the values of a list, quoted left to right
quote_all(E, len, unfold, exprs) ==
    LET terms == [i \in 1..Len(exprs) |-> quote(E, len, unfold, exprs[i])]
    IN  IF IsNone(FirstAbort(terms)) THEN OkList(terms) ELSE FirstAbort(terms)

\* QuoteEnv::quote
QuoteEnv_quote(E, len, unfold, unforced) ==
    LET value == force(E, unforced)
    IN  CASE value.tag = "Abort" -> value
          [] value.tag = "Stuck" ->
               quote_spine_from(E, len, unfold,
                                quote_head(E, len, unfold, value.head), value.spine, 1)
          [] value.tag = "Universe" -> Term_Universe
          [] value.tag = "FunType" ->
               LET param_type == quote(E, len, unfold, value.param_type)
                   body_type == quote_closure(E, len, unfold, value.body_type)
               IN  IF IsAbort(param_type) THEN param_type
                   ELSE IF IsAbort(body_type) THEN body_type
                   ELSE Term_FunType(param_type, body_type)
          [] value.tag = "FunLit" ->
               LET body_expr == quote_closure(E, len, unfold, value.body_expr)
               IN  IF IsAbort(body_expr) THEN body_expr ELSE Term_FunLit(body_expr)
          [] value.tag \in {"RecordType", "FormatRecord", "FormatOverlap"} ->
               LET terms == quote_telescope(E, len, unfold,
                                IF value.tag = "RecordType" THEN value.types
                                ELSE value.formats)
               IN  IF IsAbort(terms) THEN terms
                   ELSE IF value.tag = "RecordType"
                   THEN Term_RecordType(value.labels, terms.list)
                   ELSE IF value.tag = "FormatRecord"
                   THEN Term_FormatRecord(value.labels, terms.list)
                   ELSE Term_FormatOverlap(value.labels, terms.list)
          [] value.tag = "RecordLit" ->
               LET exprs == quote_all(E, len, unfold, value.exprs)
               IN  IF IsAbort(exprs) THEN exprs
                   ELSE Term_RecordLit(value.labels, exprs.list)
          [] value.tag = "ArrayLit" ->
               LET exprs == quote_all(E, len, unfold, value.exprs)
               IN  IF IsAbort(exprs) THEN exprs ELSE Term_ArrayLit(exprs.list)
          [] value.tag = "FormatCond" ->
               LET format == quote(E, len, unfold, value.format)
                   cond == quote_closure(E, len, unfold, value.cond)
               IN  IF IsAbort(format) THEN format
                   ELSE IF IsAbort(cond) THEN cond
                   ELSE Term_FormatCond(value.label, format, cond)
          [] value.tag = "ConstLit" -> Term_ConstLit(value.const)

\* QuoteEnv::quote_head
QuoteEnv_quote_head(E, len, unfold, head) ==
    CASE head.tag = "Prim" -> Term_Prim(head.prim)
      [] head.tag = "LocalVar" ->
           IF level_to_index(len, head.var) < 0 THEN Abort("UnboundLocalVar")
           ELSE Term_LocalVar(level_to_index(len, head.var))
      [] head.tag = "MetaVar" ->
           IF ~unfold THEN Term_MetaVar(head.var)
           ELSE IF head.var >= Len(E.meta_exprs) THEN Abort("UnboundMetaVar")
           ELSE IF IsNone(get_level(E.meta_exprs, head.var)) THEN Term_MetaVar(head.var)
           ELSE quote(E, len, unfold, get_level(E.meta_exprs, head.var))

\* the fold of QuoteEnv::quote over the spine of a stuck value
QuoteEnv_quote_spine_from(E, len, unfold, head_expr, spine, i) ==
    IF i > Len(spine) \/ IsAbort(head_expr) THEN head_expr
    ELSE LET elim == spine[i]
             next ==
               CASE elim.tag = "FunApp" ->
                      LET arg_expr == quote(E, len, unfold, elim.arg_expr)
                      IN  IF IsAbort(arg_expr) THEN arg_expr
                          ELSE Term_FunApp(head_expr, arg_expr)
                 [] elim.tag = "RecordProj" -> Term_RecordProj(head_expr, elim.label)
                 [] elim.tag = "ConstMatch" ->
                      LET pattern_branches == quote_branches(E, len, unfold, elim.branches)
                          default_expr ==
                            IF IsNone(elim.branches.default_expr) THEN None
                            ELSE quote_closure(E, len, unfold,
                                     Closure(elim.branches.local_exprs,
                                             elim.branches.default_expr))
                      IN  IF IsAbort(pattern_branches) THEN pattern_branches
                          ELSE IF IsAbort(default_expr) THEN default_expr
                          ELSE Term_ConstMatch(head_expr, pattern_branches.list, default_expr)
         IN  quote_spine_from(E, len, unfold, next, spine, i + 1)

\* the loop over ElimEnv::split_branches in QuoteEnv::quote
QuoteEnv_quote_branches(E, len, unfold, branches) ==
    IF branches.pattern_branches = <<>> THEN OkList(<<>>)
    ELSE LET branch == split_branch(E, branches)
             body == quote(E, len, unfold, branch.body)
             rest == quote_branches(E, len, unfold, next_branches(branches))
         IN  IF IsAbort(body) THEN body
             ELSE IF IsAbort(rest) THEN rest
             ELSE OkList(<<[pattern |-> branch.pattern, body |-> body]>> \o rest.list)

\* QuoteEnv::quote_closure
QuoteEnv_quote_closure(E, len, unfold, closure) ==
    quote(E, len + 1, unfold, apply_closure(E, closure, local_var(next_level(len))))

\* QuoteEnv::quote_telescope
QuoteEnv_quote_telescope(E, len, unfold, telescope) ==
    IF telescope.terms = <<>> THEN OkList(<<>>)
    ELSE LET term == quote(E, len, unfold, split_telescope(E, telescope))
             rest == quote_telescope(E, len + 1, unfold,
                         next_telescope(telescope, local_var(next_level(len))))
         IN  IF IsAbort(term) THEN term
             ELSE IF IsAbort(rest) THEN rest
             ELSE OkList(<<term>> \o rest.list)

\* EvalEnv::normalise
normalise(E, env, term) == quote(E, Len(env), FALSE, eval(E, env, term))


(***************************************************************************)
(* EvalEnv::unfold_metas (zonking).  unfold_spine_metas returns a          *)
(* TermOrValue: a term while the head of the spine has no solution, a      *)
(* value once it has one.                                                  *)
(***************************************************************************)
TermOrValue_Term(term) == [tag |-> "Term", term |-> term]
TermOrValue_Value(value) == [tag |-> "Value", value |-> value]

\* EvalEnv::quote_env, then QuoteEnv::quote
quote_env_quote(E, env, value) == quote(E, Len(env), FALSE, value)

\* a binder whose body is handed back as it was
bound_term_kept(E, env, term) == term

\* EvalEnv::unfold_bound_metas
unfold_bound_metas(E, env, term) ==
    unfold_metas(E, Append(env, local_var(next_level(Len(env)))), term)

\* the terms of a list, unfolded left to right
unfold_all(E, env, exprs) ==
    LET terms == [i \in 1..Len(exprs) |-> unfold_metas(E, env, exprs[i])]
    IN  IF IsNone(FirstAbort(terms)) THEN OkList(terms) ELSE FirstAbort(terms)

\* the branches of a match, their bodies unfolded left to right
unfold_branches(E, env, branches) ==
    LET bodies == unfold_all(E, env, [i \in 1..Len(branches) |-> branches[i].body])
    IN  IF IsAbort(bodies) THEN bodies
        ELSE OkList([i \in 1..Len(branches) |->
                        [pattern |-> branches[i].pattern, body |-> bodies.list[i]]])

\* EvalEnv::unfold_metas
EvalEnv_unfold_metas(E, env, term) ==
    CASE term.tag \in {"ItemVar", "LocalVar", "Universe", "Prim", "ConstLit"} -> term
      [] term.tag \in {"MetaVar", "FunApp", "RecordProj", "ConstMatch"} ->
           LET unfolded == unfold_spine_metas(E, env, term)
           IN  IF IsAbort(unfolded) THEN unfolded
               ELSE IF unfolded.tag = "Term" THEN unfolded.term
               ELSE quote_env_quote(E, env, unfolded.value)
      [] term.tag = "InsertedMeta" ->
           IF term.var >= Len(E.meta_exprs) THEN Abort("UnboundMetaVar")
           ELSE IF IsNone(get_level(E.meta_exprs, term.var))
           THEN Term_InsertedMeta(term.var, term.infos)
           ELSE quote_env_quote(E, env,
                    apply_local_infos_from(E, env, get_level(E.meta_exprs, term.var),
                                           term.infos, 1))
      [] term.tag = "Ann" ->
           LET expr == unfold_metas(E, env, term.expr)
               type == unfold_metas(E, env, term.type)
           IN  IF IsAbort(expr) THEN expr
               ELSE IF IsAbort(type) THEN type
               ELSE Term_Ann(expr, type)
      [] term.tag = "Let" ->
           LET def_type == unfold_metas(E, env, term.def_type)
               def_expr == unfold_metas(E, env, term.def_expr)
               body_expr == unfold_bound_metas(E, env, term.body_expr)
           IN  IF IsAbort(def_type) THEN def_type
               ELSE IF IsAbort(def_expr) THEN def_expr
               ELSE IF IsAbort(body_expr) THEN body_expr
               ELSE Term_Let(def_type, def_expr, body_expr)
      [] term.tag = "FunType" ->
           LET param_type == unfold_metas(E, env, term.param_type)
               body_type == unfold_bound_metas(E, env, term.body_type)
           IN  IF IsAbort(param_type) THEN param_type
               ELSE IF IsAbort(body_type) THEN body_type
               ELSE Term_FunType(param_type, body_type)
      [] term.tag = "FunLit" ->
           LET body_expr == unfold_bound_metas(E, env, term.body_expr)
           IN  IF IsAbort(body_expr) THEN body_expr ELSE Term_FunLit(body_expr)
      [] term.tag \in {"RecordType", "FormatRecord", "FormatOverlap"} ->
           LET terms == unfold_telescope_metas(E, env,
                            IF term.tag = "RecordType" THEN term.types
                            ELSE term.formats)
           IN  IF IsAbort(terms) THEN terms
               ELSE IF term.tag = "RecordType"
               THEN Term_RecordType(term.labels, terms.list)
               ELSE IF term.tag = "FormatRecord"
               THEN Term_FormatRecord(term.labels, terms.list)
               ELSE Term_FormatOverlap(term.labels, terms.list)
      [] term.tag = "RecordLit" ->
           LET exprs == unfold_all(E, env, term.exprs)
           IN  IF IsAbort(exprs) THEN exprs ELSE Term_RecordLit(term.labels, exprs.list)
      [] term.tag = "ArrayLit" ->
           LET exprs == unfold_all(E, env, term.exprs)
           IN  IF IsAbort(exprs) THEN exprs ELSE Term_ArrayLit(exprs.list)
      [] term.tag = "FormatCond" ->
           LET format == unfold_metas(E, env, term.format)
               cond == unfold_bound_metas(E, env, term.cond)
           IN  IF IsAbort(format) THEN format
               ELSE IF IsAbort(cond) THEN cond
               ELSE Term_FormatCond(term.label, format, cond)

\* EvalEnv::unfold_spine_metas
EvalEnv_unfold_spine_metas(E, env, term) ==
    CASE term.tag = "MetaVar" ->
           IF term.var >= Len(E.meta_exprs) THEN Abort("UnboundMetaVar")
           ELSE IF IsNone(get_level(E.meta_exprs, term.var))
           THEN TermOrValue_Term(Term_MetaVar(term.var))
           ELSE TermOrValue_Value(get_level(E.meta_exprs, term.var))
      [] term.tag = "InsertedMeta" ->
           IF term.var >= Len(E.meta_exprs) THEN Abort("UnboundMetaVar")
           ELSE IF IsNone(get_level(E.meta_exprs, term.var))
           THEN TermOrValue_Term(Term_InsertedMeta(term.var, term.infos))
           ELSE LET value == apply_local_infos_from(E, env, get_level(E.meta_exprs, term.var),
                                                    term.infos, 1)
                IN  IF IsAbort(value) THEN value ELSE TermOrValue_Value(value)
      [] term.tag \in {"FunApp", "RecordProj", "ConstMatch"} ->
           LET head_expr == unfold_spine_metas(E, env, term.head_expr)
           IN  IF IsAbort(head_expr) THEN head_expr
               ELSE IF head_expr.tag = "Term"
               THEN IF term.tag = "FunApp"
                    THEN LET arg_expr == unfold_metas(E, env, term.arg_expr)
                         IN  IF IsAbort(arg_expr) THEN arg_expr
                             ELSE TermOrValue_Term(Term_FunApp(head_expr.term, arg_expr))
                    ELSE IF term.tag = "RecordProj"
                    THEN TermOrValue_Term(Term_RecordProj(head_expr.term, term.label))
                    ELSE LET branches == unfold_branches(E, env, term.branches)
                             default ==
                               IF IsNone(term.default_expr) THEN None
                               ELSE unfold_bound_metas(E, env, term.default_expr)
                         IN  IF IsAbort(branches) THEN branches
                             ELSE IF IsAbort(default) THEN default
                             ELSE TermOrValue_Term(
                                      Term_ConstMatch(head_expr.term, branches.list, default))
               ELSE LET value ==
                          IF term.tag = "FunApp"
                          THEN LET arg_expr == eval(E, env, term.arg_expr)
                               IN  IF IsAbort(arg_expr) THEN arg_expr
                                   ELSE fun_app(E, head_expr.value, arg_expr)
                          ELSE IF term.tag = "RecordProj"
                          THEN record_proj(head_expr.value, term.label)
                          ELSE const_match(E, head_expr.value,
                                   Branches(env, term.branches, term.default_expr))
                    IN  IF IsAbort(value) THEN value ELSE TermOrValue_Value(value)
      [] OTHER ->
           LET unfolded == unfold_metas(E, env, term)
           IN  IF IsAbort(unfolded) THEN unfolded ELSE TermOrValue_Term(unfolded)

\* EvalEnv::unfold_telescope_metas
EvalEnv_unfold_telescope_metas(E, env, terms) ==
    IF terms = <<>> THEN OkList(<<>>)
    ELSE LET term == unfold_metas(E, env, Head(terms))
             rest == unfold_telescope_metas(E,
                         Append(env, local_var(next_level(Len(env)))), Tail(terms))
         IN  IF IsAbort(term) THEN term
             ELSE IF IsAbort(rest) THEN rest
             ELSE OkList(<<term>> \o rest.list)


(***************************************************************************)
(* Conversion checking (ConversionEnv).  len is                            *)
(* ConversionEnv::local_exprs.  The boolean result b is Ok(b); a panic of  *)
(* an elimination inside the check is an Abort.                            *)
(***************************************************************************)
Ok(b) == [tag |-> "Ok", val |-> b]

\* `a && b`: b is only looked at when a is true
AndAlso(a, b) == IF IsAbort(a) THEN a ELSE IF ~a.val THEN a ELSE b

\* a match on ReportedError that only takes the primitive with no spine
IsBareReportedError(value) == value = prim(Prim0("ReportedError"), <<>>)

IsReportedError(value) ==
    value.tag = "Stuck" /\ value.head = Head_Prim(Prim0("ReportedError"))


\* ConversionEnv::is_equal_telescopes
is_equal_telescopes(E, len, telescope0, telescope1) ==
    IF Len(telescope0.terms) # Len(telescope1.terms) THEN Ok(FALSE)
    ELSE is_equal_telescopes_loop(E, len, telescope0, telescope1)

\* ConversionEnv::is_equal_record_lit
is_equal_record_lit(E, len, labels, exprs, value) ==
    is_equal_record_lit_from(E, len, labels, exprs, value, 1)

\* ConversionEnv::is_equal
ConversionEnv_is_equal(E, len, unforced0, unforced1) ==
    LET v0 == force(E, unforced0)
        v1 == force(E, unforced1)
    IN  IF IsAbort(v0) THEN v0
        ELSE IF IsAbort(v1) THEN v1
        ELSE IF IsReportedError(v0) \/ IsReportedError(v1) THEN Ok(TRUE)
        ELSE IF v0.tag = "Stuck" /\ v1.tag = "Stuck" THEN
            IF v0.head = v1.head /\ Len(v0.spine) = Len(v1.spine)
            THEN is_equal_spine_from(E, len, v0.spine, v1.spine, 1)
            ELSE Ok(FALSE)
        ELSE IF v0.tag = "Universe" /\ v1.tag = "Universe" THEN Ok(TRUE)
        ELSE IF v0.tag = "FunType" /\ v1.tag = "FunType" THEN
            AndAlso(is_equal(E, len, v0.param_type, v1.param_type),
                    is_equal_closures(E, len, v0.body_type, v1.body_type))
        ELSE IF v0.tag = "FunLit" /\ v1.tag = "FunLit" THEN
            is_equal_closures(E, len, v0.body_expr, v1.body_expr)
        ELSE IF v0.tag = "FunLit" THEN is_equal_fun_lit(E, len, v0.body_expr, v1)
        ELSE IF v1.tag = "FunLit" THEN is_equal_fun_lit(E, len, v1.body_expr, v0)
        ELSE IF v0.tag = "RecordType" /\ v1.tag = "RecordType" THEN
            IF v0.labels = v1.labels
            THEN is_equal_telescopes(E, len, v0.types, v1.types)
            ELSE Ok(FALSE)
        ELSE IF v0.tag = "RecordLit" /\ v1.tag = "RecordLit" THEN
            IF v0.labels = v1.labels
            THEN is_equal_zip_from(E, len, v0.exprs, v1.exprs, 1)
            ELSE Ok(FALSE)
        ELSE IF v0.tag = "RecordLit" THEN
            is_equal_record_lit(E, len, v0.labels, v0.exprs, v1)
        ELSE IF v1.tag = "RecordLit" THEN
            is_equal_record_lit(E, len, v1.labels, v1.exprs, v0)
        ELSE IF v0.tag = "ArrayLit" /\ v1.tag = "ArrayLit" THEN
            is_equal_zip_from(E, len, v0.exprs, v1.exprs, 1)
        ELSE IF v0.tag = v1.tag /\ v0.tag \in {"FormatRecord", "FormatOverlap"} THEN
            IF v0.labels = v1.labels
            THEN is_equal_telescopes(E, len, v0.formats, v1.formats)
            ELSE Ok(FALSE)
        ELSE IF v0.tag = "FormatCond" /\ v1.tag = "FormatCond" THEN
            IF v0.label = v1.label
            THEN AndAlso(is_equal(E, len, v0.format, v1.format),
                         is_equal_closures(E, len, v0.cond, v1.cond))
            ELSE Ok(FALSE)
        ELSE IF v0.tag = "ConstLit" /\ v1.tag = "ConstLit" THEN
            Ok(ConstEq(v0.const, v1.const))
        ELSE Ok(FALSE)

\* Iterator::zip(exprs0, exprs1).all(is_equal): stops at the shorter list
ConversionEnv_is_equal_zip_from(E, len, exprs0, exprs1, i) ==
    IF i > Len(exprs0) \/ i > Len(exprs1) THEN Ok(TRUE)
    ELSE AndAlso(is_equal(E, len, exprs0[i], exprs1[i]),
                 is_equal_zip_from(E, len, exprs0, exprs1, i + 1))

\* a comparison of spines that compares the labels of projections only
is_equal_spine_labels(E, len, spine0, spine1, i) ==
    Ok(\A j \in 1..Len(spine0) :
          spine0[j].tag = "RecordProj" /\ spine0[j] = spine1[j])

\* the comparison of two spines of one length in ConversionEnv::is_equal
ConversionEnv_is_equal_spine_from(E, len, spine0, spine1, i) ==
    IF i > Len(spine0) \/ i > Len(spine1) THEN Ok(TRUE)
    ELSE LET elim0 == spine0[i]
             elim1 == spine1[i]
             this ==
               IF elim0.tag = "FunApp" /\ elim1.tag = "FunApp"
               THEN is_equal(E, len, elim0.arg_expr, elim1.arg_expr)
               ELSE IF elim0.tag = "RecordProj" /\ elim1.tag = "RecordProj"
               THEN Ok(elim0.label = elim1.label)
               ELSE IF elim0.tag = "ConstMatch" /\ elim1.tag = "ConstMatch"
               THEN is_equal_branches(E, len, elim0.branches, elim1.branches)
               ELSE Ok(FALSE)
         IN  AndAlso(this, is_equal_spine_from(E, len, spine0, spine1, i + 1))

\* ConversionEnv::is_equal_closures
ConversionEnv_is_equal_closures(E, len, closure0, closure1) ==
    LET var == local_var(next_level(len))
        v0 == apply_closure(E, closure0, var)
        v1 == apply_closure(E, closure1, var)
    IN  IF IsAbort(v0) THEN v0
        ELSE IF IsAbort(v1) THEN v1
        ELSE is_equal(E, len + 1, v0, v1)

\* the loop of ConversionEnv::is_equal_telescopes
ConversionEnv_is_equal_telescopes_loop(E, len, telescope0, telescope1) ==
    IF telescope0.terms = <<>> \/ telescope1.terms = <<>> THEN Ok(TRUE)
    ELSE LET v0 == split_telescope(E, telescope0)
             v1 == split_telescope(E, telescope1)
             var == local_var(next_level(len))
         IN  IF IsAbort(v0) THEN v0
             ELSE IF IsAbort(v1) THEN v1
             ELSE AndAlso(is_equal(E, len, v0, v1),
                          is_equal_telescopes_loop(E, len + 1,
                              next_telescope(telescope0, var),
                              next_telescope(telescope1, var)))

\* ConversionEnv::is_equal_branches
ConversionEnv_is_equal_branches(E, len, branches0, branches1) ==
    IF branches0.pattern_branches # <<>> /\ branches1.pattern_branches # <<>> THEN
        LET b0 == split_branch(E, branches0)
            b1 == split_branch(E, branches1)
        IN  IF IsAbort(b0.body) THEN b0.body
            ELSE IF IsAbort(b1.body) THEN b1.body
            ELSE IF ~ConstEq(b0.pattern, b1.pattern) THEN Ok(FALSE)
            ELSE AndAlso(is_equal(E, len, b0.body, b1.body),
                         is_equal_branches(E, len, next_branches(branches0),
                                           next_branches(branches1)))
    ELSE IF branches0.pattern_branches # <<>> THEN
        LET b0 == split_branch(E, branches0)
        IN  IF IsAbort(b0.body) THEN b0.body ELSE Ok(FALSE)
    ELSE IF branches1.pattern_branches # <<>> THEN
        LET b1 == split_branch(E, branches1)
        IN  IF IsAbort(b1.body) THEN b1.body ELSE Ok(FALSE)
    ELSE IF IsNone(branches0.default_expr) /\ IsNone(branches1.default_expr) THEN Ok(TRUE)
    ELSE IF IsNone(branches0.default_expr) \/ IsNone(branches1.default_expr) THEN Ok(FALSE)
    ELSE is_equal_closures(E, len,
             Closure(branches0.local_exprs, branches0.default_expr),
             Closure(branches1.local_exprs, branches1.default_expr))

\* a conversion check without the eta rule for functions
fun_lit_differs(E, len, body_expr, value) == Ok(FALSE)

\* ConversionEnv::is_equal_fun_lit
ConversionEnv_is_equal_fun_lit(E, len, body_expr, value) ==
    LET var == local_var(next_level(len))
        applied == fun_app(E, value, var)
        body == apply_closure(E, body_expr, var)
    IN  IF IsAbort(applied) THEN applied
        ELSE IF IsAbort(body) THEN body
        ELSE is_equal(E, len + 1, body, applied)

\* the zip of labels and expressions in ConversionEnv::is_equal_record_lit
ConversionEnv_is_equal_record_lit_from(E, len, labels, exprs, value, i) ==
    IF i > Len(labels) \/ i > Len(exprs) THEN Ok(TRUE)
    ELSE LET field_value == record_proj(value, labels[i])
         IN  IF IsAbort(field_value) THEN field_value
             ELSE AndAlso(is_equal(E, len, exprs[i], field_value),
                          is_equal_record_lit_from(E, len, labels, exprs, value, i + 1))


\* the body of the operation called
Dispatch(c) ==
    CASE c.f = "eval" -> EvalEnv_eval(c.a[1], c.a[2], c.a[3])
      [] c.f = "apply_local_infos_from" -> EvalEnv_apply_local_infos_from(c.a[1], c.a[2], c.a[3], c.a[4], c.a[5])
      [] c.f = "fun_app" -> ElimEnv_fun_app(c.a[1], c.a[2], c.a[3])
      [] c.f = "apply_closure" -> ElimEnv_apply_closure(c.a[1], c.a[2], c.a[3])
      [] c.f = "const_match" -> ElimEnv_const_match(c.a[1], c.a[2], c.a[3])
      [] c.f = "prim_step" -> semantics_prim_step(c.a[1], c.a[2], c.a[3])
      [] c.f = "array_find_from" -> semantics_array_find_from(c.a[1], c.a[2], c.a[3], c.a[4])
      [] c.f = "format_repr" -> ElimEnv_format_repr(c.a[1], c.a[2])
      [] c.f = "apply_spine_from" -> ElimEnv_apply_spine_from(c.a[1], c.a[2], c.a[3], c.a[4])
      [] c.f = "force" -> ElimEnv_force(c.a[1], c.a[2])
      [] c.f = "quote" -> QuoteEnv_quote(c.a[1], c.a[2], c.a[3], c.a[4])
      [] c.f = "quote_head" -> QuoteEnv_quote_head(c.a[1], c.a[2], c.a[3], c.a[4])
      [] c.f = "quote_spine_from" -> QuoteEnv_quote_spine_from(c.a[1], c.a[2], c.a[3], c.a[4], c.a[5], c.a[6])
      [] c.f = "quote_branches" -> QuoteEnv_quote_branches(c.a[1], c.a[2], c.a[3], c.a[4])
      [] c.f = "quote_closure" -> QuoteEnv_quote_closure(c.a[1], c.a[2], c.a[3], c.a[4])
      [] c.f = "quote_telescope" -> QuoteEnv_quote_telescope(c.a[1], c.a[2], c.a[3], c.a[4])
      [] c.f = "unfold_metas" -> EvalEnv_unfold_metas(c.a[1], c.a[2], c.a[3])
      [] c.f = "unfold_spine_metas" -> EvalEnv_unfold_spine_metas(c.a[1], c.a[2], c.a[3])
      [] c.f = "unfold_telescope_metas" -> EvalEnv_unfold_telescope_metas(c.a[1], c.a[2], c.a[3])
      [] c.f = "is_equal" -> ConversionEnv_is_equal(c.a[1], c.a[2], c.a[3], c.a[4])
      [] c.f = "is_equal_zip_from" -> ConversionEnv_is_equal_zip_from(c.a[1], c.a[2], c.a[3], c.a[4], c.a[5])
      [] c.f = "is_equal_spine_from" -> ConversionEnv_is_equal_spine_from(c.a[1], c.a[2], c.a[3], c.a[4], c.a[5])
      [] c.f = "is_equal_closures" -> ConversionEnv_is_equal_closures(c.a[1], c.a[2], c.a[3], c.a[4])
      [] c.f = "is_equal_telescopes_loop" -> ConversionEnv_is_equal_telescopes_loop(c.a[1], c.a[2], c.a[3], c.a[4])
      [] c.f = "is_equal_branches" -> ConversionEnv_is_equal_branches(c.a[1], c.a[2], c.a[3], c.a[4])
      [] c.f = "is_equal_fun_lit" -> ConversionEnv_is_equal_fun_lit(c.a[1], c.a[2], c.a[3], c.a[4])
      [] c.f = "is_equal_record_lit_from" -> ConversionEnv_is_equal_record_lit_from(c.a[1], c.a[2], c.a[3], c.a[4], c.a[5], c.a[6])

(***************************************************************************)
(* The primitive arithmetic under test: the application of an arithmetic   *)
(* primitive to literals at the edges of each integer type is evaluated.   *)
(***************************************************************************)
\* literals at the edges of u{w}: 0, 1, 2, 3, around the square root of the
\* range, the top bit and the maximum
UIntInputs(w) ==
    {IntOf(0), IntOf(1), IntOf(2), IntOf(3),
     IntSub(IntPow2(w \div 2), IntOf(1)), IntPow2(w \div 2),
     IntPow2(w - 1), UIntMax(w)}

\* literals at the edges of i{w}
SIntInputs(w) ==
    {SIntMin(w), IntAdd(SIntMin(w), IntOf(1)), IntNeg(IntPow2(w \div 2)),
     IntOf(0 - 3), IntOf(0 - 1), IntOf(0), IntOf(1), IntOf(2),
     IntPow2(w \div 2), SIntMax(w)}

\* shift amounts around the width of u{w}
ShiftInputs(w) ==
    {IntOf(0), IntOf(1), IntOf(w \div 2), IntOf(w - 1), IntOf(w), IntOf(w + 1),
     UIntMax(LimbBits)}

ArithOps == {"Add", "Sub", "Mul", "Div"}
ShiftOps == {"Shl", "Shr"}
SignedUnaryOps == {"Neg", "Abs"}
ShiftStyles == {"Decimal", "Hex"}

App1(p, x) == Term_FunApp(Term_Prim(p), Term_ConstLit(x))
App2(p, x, y) == Term_FunApp(App1(p, x), Term_ConstLit(y))

PrimTerms ==
    UNION {
        {App2(PrimU(w, name), ConstU(w, x, "Decimal"), ConstU(w, y, "Decimal")) :
            name \in ArithOps, x \in UIntInputs(w), y \in UIntInputs(w)}
        \cup {App2(PrimS(w, name), ConstS(w, x), ConstS(w, y)) :
            name \in ArithOps, x \in SIntInputs(w), y \in SIntInputs(w)}
        \cup {App1(PrimS(w, name), ConstS(w, x)) :
            name \in SignedUnaryOps, x \in SIntInputs(w)}
        \cup {App2(PrimU(w, name), ConstU(w, x, xst), ConstU(LimbBits, y, "Decimal")) :
            name \in ShiftOps, x \in UIntInputs(w), y \in ShiftInputs(w),
            xst \in ShiftStyles}
        : w \in Widths}

InitPrim ==
    /\ item_exprs = <<>>
    /\ meta_exprs = <<>>
    /\ local_exprs = <<>>
    /\ term0 \in PrimTerms
    /\ term1 = Term_Universe
    /\ value0 = None
    /\ value1 = None
    /\ op = "init"
    /\ out = None
    /\ overflow_checks \in BOOLEAN

\* EvalEnv::eval of the application
EvalPrim ==
    /\ op = "init"
    /\ out' = eval(ElimEnv(item_exprs, meta_exprs, overflow_checks), local_exprs, term0)
    /\ op' = "eval"
    /\ UNCHANGED <<item_exprs, meta_exprs, local_exprs, term0, term1, value0, value1,
                   overflow_checks>>

NextPrim == EvalPrim

SpecPrim == InitPrim /\ [][NextPrim]_vars


(***************************************************************************)
(* Properties of the primitive arithmetic                                  *)
(***************************************************************************)
\* the primitive and the literals of an evaluated application
AppliedPrim == IF term0.head_expr.tag = "Prim" THEN term0.head_expr.prim
               ELSE term0.head_expr.head_expr.prim
IsBinary == term0.head_expr.tag = "FunApp"
ArgX == IF IsBinary THEN term0.head_expr.arg_expr.const ELSE term0.arg_expr.const
ArgY == term0.arg_expr.const
\* the application left as it is
StuckUnary == prim(AppliedPrim, <<Value_ConstLit(ArgX)>>)
StuckBinary == prim(AppliedPrim, <<Value_ConstLit(ArgX), Value_ConstLit(ArgY)>>)

\* q is x / y rounded towards zero: x = q * y + r with |r| < |y| and r of
\* the sign of x
IsQuotient(x, y, q) ==
    LET r == IntSub(x, IntMul(q, y))
    IN  NatLt(r.mag, y.mag) /\ (r = IntZero \/ r.neg = x.neg)

ExactArith(name, x, y) ==
    CASE name = "Add" -> IntAdd(x, y)
      [] name = "Sub" -> IntSub(x, y)
      [] name = "Mul" -> IntMul(x, y)
      [] name = "Div" -> IntDiv(x, y)

\* C7: Add, Sub, Mul and Div of every width, signed and unsigned, applied
\* to two literals give the literal of the exact mathematical result when
\* the type can represent it; when it cannot, or the divisor is 0, the
\* application stays stuck with the primitive as head and the spine [x, y].
C7_CheckedArithmetic ==
    (op = "eval" /\ IsBinary /\ AppliedPrim.op \in ArithOps) =>
        IF AppliedPrim.op = "Div" /\ ArgY.val = IntZero THEN out = StuckBinary
        ELSE LET exact == ExactArith(AppliedPrim.op, ArgX.val, ArgY.val)
             IN  /\ AppliedPrim.op = "Div" => IsQuotient(ArgX.val, ArgY.val, exact)
                 /\ IF InTy(ArgX.ty, exact)
                    THEN /\ out.tag = "ConstLit"
                         /\ out.const.ty = ArgX.ty
                         /\ out.const.val = exact
                    ELSE out = StuckBinary

\* S64Div of i64::MIN by -1 was evaluated and stayed stuck
C7_Witness ==
    /\ op = "eval"
    /\ term0 = App2(PrimS(64, "Div"), ConstS(64, SIntMin(64)), ConstS(64, IntOf(0 - 1)))
    /\ out = StuckBinary

\* C8: S{N}Neg and S{N}Abs of the literal -2^(N-1) stay stuck, of every
\* other literal they give the exact result, and no input gives a panic or
\* a literal outside the type.
C8_CheckedNegAbs ==
    (op = "eval" /\ ~IsBinary /\ AppliedPrim.op \in SignedUnaryOps) =>
        /\ out.tag # "Abort"
        /\ IF ArgX.val = SIntMin(AppliedPrim.w) THEN out = StuckUnary
           ELSE out = Value_ConstLit(ConstS(AppliedPrim.w,
                        IF AppliedPrim.op = "Neg" THEN IntNeg(ArgX.val)
                        ELSE IntAbs(ArgX.val)))

\* C9: U{N}Shl and U{N}Shr on literals reduce exactly when the amount y is
\* below N, Shl to (x * 2^y) mod 2^N and Shr to floor(x / 2^y), with the
\* numeric style of x; for y >= N the application stays stuck.
C9_Shifts ==
    (op = "eval" /\ IsBinary /\ AppliedPrim.op \in ShiftOps) =>
        LET w == AppliedPrim.w
            y == IF ArgY.val = IntZero THEN 0 ELSE ArgY.val.mag[1]
            exact == IF AppliedPrim.op = "Shl"
                     THEN NatDivMod(NatMul(ArgX.val.mag, NatPow2(y)), NatPow2(w)).rem
                     ELSE NatDivMod(ArgX.val.mag, NatPow2(y)).quot
        IN  IF y < w
            THEN out = Value_ConstLit(ConstU(w, Int_(FALSE, exact), ArgX.style))
            ELSE out = StuckBinary

\* U32Shl of a hexadecimal literal by 31 was evaluated and reduced
C9_Witness ==
    /\ op = "eval"
    /\ term0 = App2(PrimU(32, "Shl"), ConstU(32, IntOf(3), "Hex"),
                    ConstU(LimbBits, IntOf(31), "Decimal"))
    /\ out = Value_ConstLit(ConstU(32, IntPow2(31), "Hex"))


(***************************************************************************)
(* The elaborator's use of the semantics: terms are evaluated, the values  *)
(* are held, eliminated, forced, quoted and compared, and in between the   *)
(* unifier adds solutions to the metavariable table.                       *)
(***************************************************************************)
MaxMetas == 2
MaxLocals == 2

Metas == 0..(MaxMetas - 1)
U8Lit(n) == Term_ConstLit(ConstU(LimbBits, IntOf(n), "Decimal"))

\* the terms the elaborator evaluates
ElabTerms ==
    {Term_MetaVar(m) : m \in Metas}
    \cup {U8Lit(1), Term_LocalVar(0), Term_ItemVar(0),
          Term_FunApp(Term_FunApp(Term_Prim(PrimU(LimbBits, "Add")), Term_MetaVar(0)),
                      U8Lit(1)),
          Term_FunLit(Term_MetaVar(0)),
          Term_RecordLit(<<"x">>, <<Term_MetaVar(0)>>),
          Term_Prim(PrimW("FormatU", LimbBits, ""))}

\* and the terms of the arguments and right-hand sides
ArgTerms == {Term_MetaVar(m) : m \in Metas} \cup {U8Lit(2)}

\* does the metavariable m occur in the term
RECURSIVE MetaOccurs(_, _)
MetaOccurs(m, t) ==
    CASE t.tag \in {"MetaVar", "InsertedMeta"} -> t.var = m
      [] t.tag = "FunApp" -> MetaOccurs(m, t.head_expr) \/ MetaOccurs(m, t.arg_expr)
      [] t.tag = "FunLit" -> MetaOccurs(m, t.body_expr)
      [] t.tag = "FunType" -> MetaOccurs(m, t.param_type) \/ MetaOccurs(m, t.body_type)
      [] t.tag = "RecordProj" -> MetaOccurs(m, t.head_expr)
      [] t.tag \in {"RecordLit", "ArrayLit"} ->
           \E i \in 1..Len(t.exprs) : MetaOccurs(m, t.exprs[i])
      [] OTHER -> FALSE

\* the ElimEnv of the current tables
Env == ElimEnv(item_exprs, meta_exprs, overflow_checks)

\* the unifier's conditions for storing a solution: the metavariable has
\* none yet, and it does not occur in the solution (the occurs check)
SolveGuard(m, solution) ==
    /\ IsNone(meta_exprs[m + 1])
    /\ ~IsAbort(solution)
    /\ ~IsAbort(quote(Env, 0, TRUE, solution))
    /\ ~MetaOccurs(m, quote(Env, 0, TRUE, solution))

Init ==
    /\ item_exprs = <<Value_ConstLit(ConstU(LimbBits, IntOf(1), "Decimal"))>>
    /\ meta_exprs = [m \in 1..MaxMetas |-> None]
    /\ local_exprs = [i \in 1..MaxLocals |-> local_var(i - 1)]
    /\ term0 = Term_Universe
    /\ term1 = Term_Universe
    /\ value0 = Value_Universe
    /\ value1 = Value_Universe
    /\ op = "init"
    /\ out = None
    /\ overflow_checks \in BOOLEAN

\* EvalEnv::eval of a term; the caller keeps the value
Eval0(t) ==
    /\ ~IsAbort(eval(Env, local_exprs, t))
    /\ term0' = t
    /\ value0' = eval(Env, local_exprs, t)
    /\ op' = "eval"
    /\ out' = value0'
    /\ UNCHANGED <<item_exprs, meta_exprs, local_exprs, term1, value1, overflow_checks>>

Eval1(t) ==
    /\ ~IsAbort(eval(Env, local_exprs, t))
    /\ term1' = t
    /\ value1' = eval(Env, local_exprs, t)
    /\ op' = "eval"
    /\ out' = value1'
    /\ UNCHANGED <<item_exprs, meta_exprs, local_exprs, term0, value0, overflow_checks>>

\* the unifier stores the value of a solution term for the metavariable m
Solve(m, t) ==
    /\ SolveGuard(m, eval(Env, <<>>, t))
    /\ meta_exprs' = [meta_exprs EXCEPT ![m + 1] = eval(Env, <<>>, t)]
    /\ op' = "solve"
    /\ out' = None
    /\ UNCHANGED <<item_exprs, local_exprs, term0, term1, value0, value1,
                   overflow_checks>>

\* a force that keeps what it found: the solution of the head metavariable
\* is replaced by the forced value
ForceStoring ==
    /\ op' = "force"
    /\ out' = force(Env, value0)
    /\ meta_exprs' =
          IF /\ value0.tag = "Stuck" /\ value0.head.tag = "MetaVar"
             /\ ~IsNone(meta_exprs[value0.head.var + 1])
             /\ ~IsAbort(force(Env, value0))
          THEN [meta_exprs EXCEPT ![value0.head.var + 1] = force(Env, value0)]
          ELSE meta_exprs
    /\ UNCHANGED <<item_exprs, local_exprs, term0, term1, value0, value1,
                   overflow_checks>>

\* The operations of the semantics on the held values.  They borrow the
\* tables immutably (&'env SliceEnv) and hand back a result.
\* ElimEnv::force
Force ==
    /\ op' = "force"
    /\ out' = force(Env, value0)
    /\ UNCHANGED <<item_exprs, meta_exprs, local_exprs, term0, term1, value0, value1,
                   overflow_checks>>

\* ElimEnv::fun_app
FunApp ==
    /\ op' = "fun_app"
    /\ out' = fun_app(Env, value0, value1)
    /\ UNCHANGED <<item_exprs, meta_exprs, local_exprs, term0, term1, value0, value1,
                   overflow_checks>>

\* ElimEnv::record_proj
RecordProj ==
    /\ op' = "record_proj"
    /\ out' = record_proj(value0, "x")
    /\ UNCHANGED <<item_exprs, meta_exprs, local_exprs, term0, term1, value0, value1,
                   overflow_checks>>

\* ElimEnv::format_repr
FormatRepr ==
    /\ op' = "format_repr"
    /\ out' = format_repr(Env, value0)
    /\ UNCHANGED <<item_exprs, meta_exprs, local_exprs, term0, term1, value0, value1,
                   overflow_checks>>

\* QuoteEnv::quote
Quote ==
    /\ op' = "quote"
    /\ out' = quote(Env, Len(local_exprs), FALSE, value0)
    /\ UNCHANGED <<item_exprs, meta_exprs, local_exprs, term0, term1, value0, value1,
                   overflow_checks>>

\* QuoteEnv::quote after QuoteEnv::unfolding_metas
QuoteUnfolding ==
    /\ op' = "quote_unfolding"
    /\ out' = quote(Env, Len(local_exprs), TRUE, value0)
    /\ UNCHANGED <<item_exprs, meta_exprs, local_exprs, term0, term1, value0, value1,
                   overflow_checks>>

\* EvalEnv::unfold_metas
UnfoldMetas ==
    /\ op' = "unfold_metas"
    /\ out' = unfold_metas(Env, local_exprs, term0)
    /\ UNCHANGED <<item_exprs, meta_exprs, local_exprs, term0, term1, value0, value1,
                   overflow_checks>>

\* ConversionEnv::is_equal
IsEqual ==
    /\ op' = "is_equal"
    /\ out' = is_equal(Env, Len(local_exprs), value0, value1)
    /\ UNCHANGED <<item_exprs, meta_exprs, local_exprs, term0, term1, value0, value1,
                   overflow_checks>>

Next ==
    \/ \E t \in ElabTerms : Eval0(t)
    \/ \E t \in ArgTerms : Eval1(t)
    \/ \E m \in Metas, t \in ArgTerms : Solve(m, t)
    \/ Force
    \/ FunApp
    \/ RecordProj
    \/ FormatRepr
    \/ Quote
    \/ QuoteUnfolding
    \/ UnfoldMetas
    \/ IsEqual

Spec == Init /\ [][Next]_vars


(***************************************************************************)
(* Properties of the metavariable table                                    *)
(***************************************************************************)
Solved(m) == m < Len(meta_exprs) /\ ~IsNone(meta_exprs[m + 1])

\* a Stuck value with a solved metavariable as head, the value itself or one
\* held in its spine, its fields, its elements or the environment of one of
\* its closures
RECURSIVE HasSolvedHead(_)
HasSolvedHead(v) ==
    CASE v.tag = "Stuck" ->
           \/ v.head.tag = "MetaVar" /\ Solved(v.head.var)
           \/ \E i \in 1..Len(v.spine) :
                 v.spine[i].tag = "FunApp" /\ HasSolvedHead(v.spine[i].arg_expr)
      [] v.tag \in {"RecordLit", "ArrayLit"} ->
           \E i \in 1..Len(v.exprs) : HasSolvedHead(v.exprs[i])
      [] v.tag = "FunLit" ->
           \E i \in 1..Len(v.body_expr.local_exprs) :
              HasSolvedHead(v.body_expr.local_exprs[i])
      [] OTHER -> FALSE

ValueOps == {"eval", "force", "fun_app", "record_proj", "format_repr"}

\* C5 as stated: in every reachable state no Stuck value that exists (held
\* by the caller, returned by an operation, stored as a solution or in the
\* environment) has as head a metavariable that has a solution.
C5_NoSolvedMetaHead ==
    /\ ~HasSolvedHead(value0)
    /\ ~HasSolvedHead(value1)
    /\ (op \in ValueOps /\ ~IsAbort(out)) => ~HasSolvedHead(out)
    /\ \A i \in 1..Len(meta_exprs) :
          ~IsNone(meta_exprs[i]) => ~HasSolvedHead(meta_exprs[i])
    /\ \A i \in 1..Len(local_exprs) : ~HasSolvedHead(local_exprs[i])

\* C5 amended: the value that force returns is never a Stuck value whose
\* head is a metavariable with a solution; values evaluated before a
\* solution was added keep their metavariable head until they are forced.
C5_ForcedHeadUnsolved ==
    (op = "force" /\ ~IsAbort(out) /\ out.tag = "Stuck" /\ out.head.tag = "MetaVar")
        => ~Solved(out.head.var)

\* a held value whose head was solved after it was evaluated has been forced
C5_Witness ==
    /\ op = "force"
    /\ value0.tag = "Stuck" /\ value0.head.tag = "MetaVar" /\ Solved(value0.head.var)
    /\ out.tag = "ConstLit"

MaxArrayLen == 2

U8Hex(n) == Term_ConstLit(ConstU(LimbBits, IntOf(n), "Hex"))
U8Add == Term_Prim(PrimU(LimbBits, "Add"))
FormatU8 == Term_Prim(PrimW("FormatU", LimbBits, ""))
ReportedError == Term_Prim(Prim0("ReportedError"))

\* the array literals of up to MaxArrayLen elements
ArrayTerms ==
    {Term_ArrayLit(exprs) :
        exprs \in UNION {[1..n -> {U8Lit(1), U8Lit(2)}] : n \in 0..MaxArrayLen}}

\* f under one more binder, for a term f that is a variable, a primitive
\* or a projection of one
RECURSIVE Weaken(_)
Weaken(t) ==
    CASE t.tag = "LocalVar" -> Term_LocalVar(t.var + 1)
      [] t.tag = "RecordProj" -> Term_RecordProj(Weaken(t.head_expr), t.label)
      [] OTHER -> t

\* fun x => f x
EtaFun(f) == Term_FunLit(Term_FunApp(Weaken(f), Term_LocalVar(0)))
\* { l = r.l, .. } for the labels l of ls
EtaRecord(ls, r) == Term_RecordLit(ls, [i \in 1..Len(ls) |-> Term_RecordProj(r, ls[i])])

LabelLists == {<<>>, <<"x">>, <<"x", "y">>}
NeutralTerms ==
    {Term_LocalVar(0), Term_LocalVar(1), U8Add, Term_RecordProj(Term_LocalVar(0), "x")}

CoreTerms ==
    NeutralTerms
    \cup {EtaFun(f) : f \in NeutralTerms}
    \cup {EtaRecord(ls, Term_LocalVar(0)) : ls \in LabelLists}
    \cup ArrayTerms
    \cup {Term_MetaVar(m) : m \in Metas}
    \cup {Term_Universe, Term_ItemVar(0), U8Lit(1), U8Hex(1), U8Lit(2),
          ReportedError, Term_FunApp(ReportedError, Term_LocalVar(0)),
          Term_FunLit(Term_LocalVar(0)),
          Term_RecordLit(<<"x">>, <<U8Lit(1)>>),
          Term_FunType(Term_Universe, Term_LocalVar(0)),
          Term_FunType(Term_Universe, Term_Universe),
          Term_RecordType(<<"x", "y">>, <<Term_Universe, Term_LocalVar(0)>>),
          Term_RecordType(<<"x">>, <<Term_Universe>>),
          Term_FormatRecord(<<"x">>, <<FormatU8>>),
          Term_FormatOverlap(<<"x">>, <<FormatU8>>),
          Term_FormatCond("x", FormatU8, Term_ConstLit(ConstBool(TRUE))),
          Term_FunApp(Term_FunApp(U8Add, Term_MetaVar(0)), U8Lit(1)),
          Term_FunApp(Term_FunApp(U8Add, U8Lit(1)), U8Lit(1)),
          Term_FunApp(Term_LocalVar(0), U8Lit(1)),
          Term_FunApp(Term_FunLit(Term_LocalVar(0)), U8Lit(2)),
          Term_FunApp(Term_Prim(Prim0("FormatRepr")), FormatU8),
          Term_ConstMatch(Term_LocalVar(0),
                          <<[pattern |-> ConstU(LimbBits, IntOf(1), "Decimal"),
                             body |-> U8Lit(2)]>>, Term_LocalVar(0)),
          Term_ConstMatch(U8Hex(1),
                          <<[pattern |-> ConstU(LimbBits, IntOf(1), "Decimal"),
                             body |-> U8Lit(2)]>>, None),
          Term_Let(FormatU8, U8Lit(1), Term_LocalVar(0)),
          Term_Ann(U8Lit(1), FormatU8)}

\* the tables the unifier leaves: no solution; the first metavariable
\* solved to a literal; each metavariable solved to the next one while that
\* had no solution, the last one without or, later, with a solution
NoSolutions == [m \in 1..MaxMetas |-> None]
FirstSolved ==
    [m \in 1..MaxMetas |->
        IF m = 1 THEN Value_ConstLit(ConstU(LimbBits, IntOf(2), "Decimal")) ELSE None]
ChainOfSolutions(last) ==
    [m \in 1..MaxMetas |-> IF m < MaxMetas THEN meta_var(m) ELSE last]
MetaTables ==
    {NoSolutions, FirstSolved, ChainOfSolutions(None),
     ChainOfSolutions(Value_ConstLit(ConstU(LimbBits, IntOf(2), "Decimal")))}

InitNorm ==
    /\ item_exprs = <<Value_ConstLit(ConstU(LimbBits, IntOf(1), "Decimal"))>>
    /\ meta_exprs \in MetaTables
    /\ local_exprs = [i \in 1..MaxLocals |-> local_var(i - 1)]
    /\ term0 \in CoreTerms
    /\ term1 = Term_Universe
    /\ value0 = Value_Universe
    /\ value1 = Value_Universe
    /\ op = "init"
    /\ out = None
    /\ overflow_checks \in BOOLEAN

\* EvalEnv::normalise of the term
Normalise ==
    /\ op = "init"
    /\ out' = normalise(Env, local_exprs, term0)
    /\ op' = "normalise"
    /\ UNCHANGED <<item_exprs, meta_exprs, local_exprs, term0, term1, value0, value1,
                   overflow_checks>>

\* EvalEnv::normalise of the normal form just returned
Renormalise ==
    /\ op = "normalise"
    /\ ~IsAbort(out)
    /\ term1' = out
    /\ out' = normalise(Env, local_exprs, out)
    /\ op' = "renormalise"
    /\ UNCHANGED <<item_exprs, meta_exprs, local_exprs, term0, value0, value1,
                   overflow_checks>>

NextNorm == Normalise \/ Renormalise

SpecNorm == InitNorm /\ [][NextNorm]_vars

InitConv ==
    /\ item_exprs = <<Value_ConstLit(ConstU(LimbBits, IntOf(1), "Decimal"))>>
    /\ meta_exprs \in MetaTables
    /\ local_exprs = [i \in 1..MaxLocals |-> local_var(i - 1)]
    /\ term0 \in CoreTerms
    /\ term1 \in CoreTerms
    /\ value0 = Value_Universe
    /\ value1 = Value_Universe
    /\ op = "init"
    /\ out = None
    /\ overflow_checks \in BOOLEAN

\* EvalEnv::eval of both terms, then ConversionEnv::is_equal of the values
Convert ==
    /\ op = "init"
    /\ ~IsAbort(eval(Env, local_exprs, term0))
    /\ ~IsAbort(eval(Env, local_exprs, term1))
    /\ value0' = eval(Env, local_exprs, term0)
    /\ value1' = eval(Env, local_exprs, term1)
    /\ out' = is_equal(Env, Len(local_exprs), value0', value1')
    /\ op' = "is_equal"
    /\ UNCHANGED <<item_exprs, meta_exprs, local_exprs, term0, term1, overflow_checks>>

NextConv == Convert

SpecConv == InitConv /\ [][NextConv]_vars


(***************************************************************************)
(* Properties of normalisation and conversion                              *)
(***************************************************************************)
\* C1: normalisation is idempotent: the normal form of a normal form is
\* the same term.
C1_NormaliseIdempotent == op = "renormalise" => out = term1

\* the normal forms of the two terms compared
Normal0 == normalise(Env, local_exprs, term0)
Normal1 == normalise(Env, local_exprs, term1)

\* C2 as stated: conversion of the values of two terms returns true if
\* and only if the two terms have the same normal form.
C2_ConversionIffNormalForms ==
    op = "is_equal" => (out = Ok(TRUE) <=> Normal0 = Normal1)

\* C2 amended: two terms with the same normal form are convertible; the
\* converse does not hold, since conversion also equates what eta
\* conversion, ReportedError and the style of a literal tell apart.
C2_NormalFormsConvert ==
    (op = "is_equal" /\ ~IsAbort(Normal0) /\ Normal0 = Normal1) => out = Ok(TRUE)

\* two different terms with one normal form were found convertible
C2_Witness ==
    /\ op = "is_equal"
    /\ term0 = Term_FunApp(Term_FunLit(Term_LocalVar(0)), U8Lit(2))
    /\ term1 = U8Lit(2)
    /\ Normal0 = Normal1
    /\ out = Ok(TRUE)

\* a value that is, once forced, a ReportedError applied to any spine
ErrorValue(value) ==
    /\ ~IsAbort(value)
    /\ value.tag = "Stuck"
    /\ value.head.tag = "Prim"
    /\ value.head.prim = Prim0("ReportedError")

\* C3: conversion of a ReportedError, with any spine, and any value v, in
\* either order, returns true and does not abort.
C3_ReportedErrorAbsorbs ==
    (op = "is_equal"
        /\ (ErrorValue(force(Env, value0)) \/ ErrorValue(force(Env, value1))))
        => out = Ok(TRUE)

\* a ReportedError with a spine was compared with a record literal and
\* with a function literal, in the two orders
C3_Witness ==
    /\ op = "is_equal"
    /\ \/ /\ term0 = Term_FunApp(ReportedError, Term_LocalVar(0))
          /\ value1.tag = "RecordLit"
       \/ /\ term1 = ReportedError
          /\ value0.tag = "FunLit"
    /\ out = Ok(TRUE)

IsStuck(value) == ~IsAbort(value) /\ value.tag = "Stuck"

\* C4: for a stuck value f, fun x => f x is convertible with f, and for a
\* stuck value r and labels ls, { l = r.l, .. } is convertible with r, in
\* either order of the arguments.
C4_EtaLaws ==
    op = "is_equal" =>
        /\ (IsStuck(force(Env, value1))
              /\ (term0 = EtaFun(term1)
                    \/ \E ls \in LabelLists : term0 = EtaRecord(ls, term1)))
             => out = Ok(TRUE)
        /\ (IsStuck(force(Env, value0))
              /\ (term1 = EtaFun(term0)
                    \/ \E ls \in LabelLists : term1 = EtaRecord(ls, term0)))
             => out = Ok(TRUE)

\* a projection of a variable was compared with its eta expansion
C4_Witness ==
    /\ op = "is_equal"
    /\ term0 = Term_RecordProj(Term_LocalVar(0), "x")
    /\ term1 = EtaFun(term0)
    /\ value0.tag = "Stuck"
    /\ value1.tag = "FunLit"
    /\ out = Ok(TRUE)

\* C10: two array literals are convertible exactly when they have the same
\* number of elements and the elements are pairwise convertible.
C10_ArrayLitSameLength ==
    (op = "is_equal" /\ value0.tag = "ArrayLit" /\ value1.tag = "ArrayLit") =>
        (out = Ok(TRUE) <=>
            /\ Len(value0.exprs) = Len(value1.exprs)
            /\ \A i \in 1..Len(value0.exprs) :
                  is_equal(Env, Len(local_exprs), value0.exprs[i], value1.exprs[i])
                      = Ok(TRUE))


(***************************************************************************)
(* Format representations under test: formats nested up to MaxNesting are  *)
(* evaluated, ElimEnv::format_repr runs on the value and the result is     *)
(* quoted.                                                                 *)
(***************************************************************************)
MaxNesting == 2

Endianness(w) == IF w = 8 THEN {""} ELSE {"Be", "Le"}
AtomicFormats ==
    UNION {{PrimW(fam, w, e) : e \in Endianness(w)} :
              fam \in {"FormatU", "FormatS"}, w \in Widths}
    \cup {PrimW("FormatF", w, e) : w \in {32, 64}, e \in {"Be", "Le"}}

Fmt1(p, a) == Term_FunApp(Term_Prim(p), a)
Fmt2(p, a, b) == Term_FunApp(Fmt1(p, a), b)
TrueLit == Term_ConstLit(ConstBool(TRUE))

\* the formats without arguments
LeafFormats ==
    {Term_Prim(p) : p \in AtomicFormats}
    \cup {Term_Prim(Prim0("FormatStreamPos")), Term_Prim(Prim0("FormatFail")), ReportedError}

\* the formats that take the formats and terms of F as arguments
FormatsOver(F, ws) ==
    {Fmt2(PrimW("FormatArray", w, ""), U8Lit(2), e) : w \in ws, e \in F}
    \cup {Fmt2(PrimW("FormatLimit", w, ""), U8Lit(2), e) : w \in ws, e \in F}
    \cup {Fmt1(Prim0("FormatRepeatUntilEnd"), e) : e \in F}
    \cup {Fmt2(Prim0("FormatLink"), Term_LocalVar(0), e) : e \in F}
    \cup {Fmt2(Prim0("FormatDeref"), e, Term_LocalVar(0)) : e \in F}
    \cup {Fmt2(Prim0("FormatSucceed"), e, U8Lit(1)) : e \in F}
    \cup {Fmt2(Prim0("FormatUnwrap"), e, Term_LocalVar(0)) : e \in F}
    \cup {Term_FormatCond("x", e, TrueLit) : e \in F}

NestingBase ==
    {FormatU8, Term_Prim(PrimW("FormatS", 16, "Le")),
     Term_Prim(Prim0("FormatFail")), Term_LocalVar(0)}

RECURSIVE NestedFormats(_)
NestedFormats(depth) ==
    IF depth = 0 THEN NestingBase
    ELSE NestedFormats(depth - 1)
         \cup FormatsOver(NestedFormats(depth - 1), {LimbBits, 64})

\* the terms whose value no rule of format_repr matches: neutral terms,
\* format primitives with too few or too many arguments, types, and values
\* that are no formats at all
StuckNoRuleTerms ==
    {Term_LocalVar(0), Term_LocalVar(1), Term_RecordProj(Term_LocalVar(0), "x"),
     Term_FunApp(Term_LocalVar(0), FormatU8),
     Term_Prim(PrimW("U", LimbBits, "Type")), Term_Prim(Prim0("FormatRepr")),
     Term_Prim(PrimW("FormatArray", LimbBits, "")),
     Fmt1(PrimW("FormatArray", LimbBits, ""), U8Lit(2)),
     Term_FunApp(Fmt2(PrimW("FormatArray", LimbBits, ""), U8Lit(2), FormatU8), U8Lit(1)),
     Fmt1(PrimW("FormatU", LimbBits, ""), U8Lit(1)),
     Fmt1(Prim0("FormatLink"), Term_LocalVar(0)),
     Fmt1(Prim0("FormatSucceed"), FormatU8),
     Fmt1(Prim0("FormatFail"), U8Lit(1)),
     Fmt1(ReportedError.prim, U8Lit(1)),
     Term_Prim(Prim0("FormatRepeatUntilEnd")),
     Term_RecordProj(Fmt1(PrimW("FormatArray", LimbBits, ""), U8Lit(2)), "x"),
     Term_ConstMatch(Term_LocalVar(0), <<>>, FormatU8)}
OtherNoRuleTerms ==
    {Term_Universe, U8Lit(1), TrueLit, Term_FunLit(FormatU8),
     Term_FunType(FormatU8, FormatU8), Term_RecordLit(<<"x">>, <<FormatU8>>),
     Term_RecordType(<<"x">>, <<FormatU8>>), Term_ArrayLit(<<FormatU8>>),
     Term_ArrayLit(<<>>)}
NoRuleTerms == StuckNoRuleTerms \cup OtherNoRuleTerms

\* record and overlap formats: later fields mention earlier ones
FieldLists ==
    {<<>>, <<FormatU8>>, <<Term_LocalVar(0)>>,
     <<Term_Prim(PrimW("FormatU", 16, "Be")),
       Fmt2(PrimW("FormatArray", 16, ""), Term_LocalVar(0), FormatU8)>>,
     <<FormatU8, Fmt2(PrimW("FormatLimit", LimbBits, ""), Term_LocalVar(0),
                      Term_LocalVar(1))>>,
     <<Term_FormatCond("x", FormatU8, TrueLit),
       Term_FormatRecord(<<"x">>, <<Fmt2(Prim0("FormatSucceed"), FormatU8,
                                          Term_LocalVar(0))>>)>>,
     <<FormatU8, Fmt1(Prim0("FormatRepeatUntilEnd"), Term_LocalVar(1))>>}
FieldLabels(n) == SubSeq(<<"len", "data">>, 1, n)
RecordFormats ==
    {Term_FormatRecord(FieldLabels(Len(fs)), fs) : fs \in FieldLists}
    \cup {Term_FormatOverlap(FieldLabels(Len(fs)), fs) : fs \in FieldLists}

FormatTerms ==
    LeafFormats \cup FormatsOver(NestingBase, Widths) \cup NestedFormats(MaxNesting)
    \cup NoRuleTerms \cup RecordFormats

InitFormat ==
    /\ item_exprs = <<Value_ConstLit(ConstU(LimbBits, IntOf(1), "Decimal"))>>
    /\ meta_exprs = <<>>
    /\ local_exprs = [i \in 1..MaxLocals |-> local_var(i - 1)]
    /\ term0 \in FormatTerms
    /\ term1 = Term_Universe
    /\ value0 = Value_Universe
    /\ value1 = Value_Universe
    /\ op = "init"
    /\ out = None
    /\ overflow_checks \in BOOLEAN

\* EvalEnv::eval of the format, then ElimEnv::format_repr of its value
Repr ==
    /\ op = "init"
    /\ ~IsAbort(eval(Env, local_exprs, term0))
    /\ value0' = eval(Env, local_exprs, term0)
    /\ out' = format_repr(Env, value0')
    /\ op' = "format_repr"
    /\ UNCHANGED <<item_exprs, meta_exprs, local_exprs, term0, term1, value1,
                   overflow_checks>>

\* QuoteEnv::quote of the representation
QuoteRepr ==
    /\ op = "format_repr"
    /\ ~IsAbort(out)
    /\ value1' = out
    /\ out' = quote(Env, Len(local_exprs), FALSE, out)
    /\ op' = "quote_repr"
    /\ UNCHANGED <<item_exprs, meta_exprs, local_exprs, term0, term1, value0,
                   overflow_checks>>

NextFormat == Repr \/ QuoteRepr

SpecFormat == InitFormat /\ [][NextFormat]_vars


(***************************************************************************)
(* Properties of format_repr                                               *)
(***************************************************************************)
ValueOf(t) == eval(Env, local_exprs, t)

\* the rewrite table of format representations, read on the format term
RECURSIVE ReprOf(_)
ReprOf(t) ==
    LET unary == t.tag = "FunApp" /\ t.head_expr.tag = "Prim"
        binary == /\ t.tag = "FunApp" /\ t.head_expr.tag = "FunApp"
                  /\ t.head_expr.head_expr.tag = "Prim"
        keep == prim(Prim0("FormatRepr"), <<ValueOf(t)>>)
    IN  IF t.tag = "FormatCond" THEN ReprOf(t.format)
        ELSE IF t.tag = "Prim"
        THEN CASE t.prim \in AtomicFormats /\ t.prim.fam = "FormatU" ->
                    prim(PrimW("U", t.prim.w, "Type"), <<>>)
               [] t.prim \in AtomicFormats /\ t.prim.fam = "FormatS" ->
                    prim(PrimW("S", t.prim.w, "Type"), <<>>)
               [] t.prim \in AtomicFormats /\ t.prim.fam = "FormatF" ->
                    prim(PrimW("F", t.prim.w, "Type"), <<>>)
               [] t.prim = Prim0("FormatStreamPos") -> prim(Prim0("PosType"), <<>>)
               [] t.prim = Prim0("FormatFail") -> prim(Prim0("VoidType"), <<>>)
               [] t.prim = Prim0("ReportedError") -> prim(Prim0("ReportedError"), <<>>)
               [] OTHER -> keep
        ELSE IF unary
        THEN IF t.head_expr.prim = Prim0("FormatRepeatUntilEnd")
             THEN prim(Prim0("ArrayType"), <<ReprOf(t.arg_expr)>>)
             ELSE keep
        ELSE IF binary
        THEN LET p == t.head_expr.head_expr.prim
                 a == t.head_expr.arg_expr
                 b == t.arg_expr
             IN  CASE p.fam = "FormatArray" ->
                        prim(PrimW("Array", p.w, "Type"), <<ValueOf(a), ReprOf(b)>>)
                   [] p.fam = "FormatLimit" -> ReprOf(b)
                   [] p = Prim0("FormatDeref") -> ReprOf(a)
                   [] p = Prim0("FormatLink") -> prim(Prim0("RefType"), <<ValueOf(b)>>)
                   [] p \in {Prim0("FormatSucceed"), Prim0("FormatUnwrap")} -> ValueOf(a)
                   [] OTHER -> keep
        ELSE keep

RuleFormats ==
    LeafFormats \cup FormatsOver(NestingBase, Widths) \cup NestedFormats(MaxNesting)

\* C11: format_repr follows the rewrite table for every nesting of formats:
\* atomic formats give the type of their width and signedness, arrays and
\* repeats the array type of the element's representation, limits, derefs
\* and conditions the representation of their format, links a reference
\* type, succeed and unwrap their type argument as it is.
C11_FormatReprTable ==
    (op = "format_repr" /\ term0 \in RuleFormats) => out = ReprOf(term0)

\* an array of limited signed little-endian integers was represented
C11_Witness ==
    /\ op = "format_repr"
    /\ term0 = Fmt2(PrimW("FormatArray", 64, ""), U8Lit(2),
                    Fmt2(PrimW("FormatLimit", 8, ""), U8Lit(2),
                         Term_Prim(PrimW("FormatS", 16, "Le"))))
    /\ out = prim(PrimW("Array", 64, "Type"),
                  <<ValueOf(U8Lit(2)), prim(PrimW("S", 16, "Type"), <<>>)>>)

\* C12 as stated: for every value that no rewrite rule matches, format_repr
\* returns Prim(FormatRepr) applied to that value and does not abort.
C12_NoRuleStaysStuck ==
    (op = "format_repr" /\ term0 \in NoRuleTerms) =>
        out = prim(Prim0("FormatRepr"), <<value0>>)

\* C12 amended: for every Stuck value that no rewrite rule matches,
\* format_repr returns Prim(FormatRepr) applied to that value; for a value
\* that is neither Stuck nor a record, overlap or conditional format it
\* aborts with InvalidFormatRepr.
C12_StuckStaysStuck ==
    (op = "format_repr" /\ term0 \in NoRuleTerms) =>
        IF value0.tag = "Stuck" THEN out = prim(Prim0("FormatRepr"), <<value0>>)
        ELSE out = Abort("InvalidFormatRepr")

\* an array format that lacks its element format was left stuck
C12_Witness ==
    /\ op = "format_repr"
    /\ term0 = Fmt1(PrimW("FormatArray", LimbBits, ""), U8Lit(2))
    /\ value0.tag = "Stuck" /\ Len(value0.spine) = 1
    /\ out = prim(Prim0("FormatRepr"), <<value0>>)

\* the fresh variables that stand for the first n fields
FieldVars(n) == [i \in 1..n |-> local_var(Len(local_exprs) + i - 1)]

\* the type of the i-th field: the representation of its format, evaluated
\* with the preceding fields bound, quoted under that many binders
FieldType(i) ==
    quote(Env, Len(local_exprs) + i - 1, FALSE,
          format_repr(Env, eval(Env, local_exprs \o FieldVars(i - 1), term0.formats[i])))

\* C13: the representation of a record or overlap format is a record type
\* with the same labels and as many fields, and quoting it gives the
\* representation of each field's format, the earlier fields bound to
\* fresh variables.
C13_RecordRepr ==
    (op = "quote_repr" /\ term0 \in RecordFormats) =>
        /\ value1.tag = "RecordType"
        /\ value1.labels = term0.labels
        /\ Len(value1.types.terms) = Len(term0.formats)
        /\ out = Term_RecordType(term0.labels,
                                 [i \in 1..Len(term0.formats) |-> FieldType(i)])

\* { len <- u16be, data <- array16 len u8 } gave { len : U16, data : Array16 len U8 }
C13_Witness ==
    /\ op = "quote_repr"
    /\ term0 = Term_FormatRecord(<<"len", "data">>,
                  <<Term_Prim(PrimW("FormatU", 16, "Be")),
                    Fmt2(PrimW("FormatArray", 16, ""), Term_LocalVar(0), FormatU8)>>)
    /\ out = Term_RecordType(<<"len", "data">>,
                  <<Term_Prim(PrimW("U", 16, "Type")),
                    Fmt2(PrimW("Array", 16, "Type"), Term_LocalVar(0),
                         Term_Prim(PrimW("U", 8, "Type")))>>)


(***************************************************************************)
(* ElimEnv::force step by step: the loop of force runs on a value that was *)
(* evaluated while its metavariables had no solution, under a table that   *)
(* the unifier has filled since.  The metavariables of a table have one    *)
(* type (family); a solution is a value of that type or the next           *)
(* metavariable, so no chain of solutions comes back to its start.         *)
(***************************************************************************)
ForceFamilies == {"fun", "record", "const", "funrec"}

Lit(n) == Value_ConstLit(ConstU(LimbBits, IntOf(n), "Decimal"))

FamilySolutions(fam) ==
    CASE fam = "fun" ->
           {Value_FunLit(Closure(<<>>, Term_LocalVar(0))),
            prim(PrimU(LimbBits, "Add"), <<Lit(1)>>),
            local_var(0)}
      [] fam = "record" -> {Value_RecordLit(<<"x">>, <<Lit(1)>>), local_var(0)}
      [] fam = "const" -> {Lit(1), Lit(2), local_var(0)}
      [] fam = "funrec" ->
           {Value_FunLit(Closure(<<>>, Term_RecordLit(<<"x">>, <<Term_LocalVar(0)>>)))}

ForceTables(fam) ==
    {table \in [1..MaxMetas -> {None} \cup FamilySolutions(fam)
                                 \cup {meta_var(m) : m \in Metas}] :
        \A m \in 1..MaxMetas :
            table[m] \in {meta_var(k) : k \in Metas} => table[m] = meta_var(m) /\ m < MaxMetas}

FamilyTerms(fam) ==
    {Term_MetaVar(m) : m \in Metas} \cup {U8Lit(1), Term_LocalVar(0), Term_Universe}
    \cup
    CASE fam = "fun" ->
           {Term_FunApp(Term_MetaVar(m), U8Lit(2)) : m \in Metas}
           \cup {Term_FunApp(Term_MetaVar(m), Term_FunApp(Term_MetaVar(m), U8Lit(2))) :
                    m \in Metas}
           \cup {Term_FunApp(Term_LocalVar(0), Term_FunApp(Term_MetaVar(0), U8Lit(2)))}
      [] fam = "record" -> {Term_RecordProj(Term_MetaVar(m), "x") : m \in Metas}
      [] fam = "const" ->
           {Term_ConstMatch(Term_MetaVar(m),
                            <<[pattern |-> ConstU(LimbBits, IntOf(1), "Decimal"),
                               body |-> U8Lit(2)]>>, Term_LocalVar(0)) : m \in Metas}
           \cup {Term_FunApp(Term_FunApp(U8Add, Term_MetaVar(0)), U8Lit(1))}
      [] fam = "funrec" ->
           {Term_RecordProj(Term_FunApp(Term_MetaVar(m), U8Lit(2)), "x") : m \in Metas}

InitForce ==
    /\ item_exprs = <<Lit(1)>>
    /\ local_exprs = [i \in 1..MaxLocals |-> local_var(i - 1)]
    /\ overflow_checks \in BOOLEAN
    /\ \E fam \in ForceFamilies :
          /\ meta_exprs \in ForceTables(fam)
          /\ term0 \in FamilyTerms(fam)
    /\ value0 = eval(ElimEnv(item_exprs, NoSolutions, overflow_checks), local_exprs, term0)
    /\ term1 = Term_Universe
    /\ value1 = Value_Universe
    /\ op = "init"
    /\ out = None

\* let mut forced_value = value.clone()
ForceBegin ==
    /\ op = "init"
    /\ op' = "forcing"
    /\ out' = value0
    /\ UNCHANGED <<item_exprs, meta_exprs, local_exprs, term0, term1, value0, value1,
                   overflow_checks>>

\* one turn of the loop on a value with a metavariable as head: a
\* solution is applied to the spine, no solution ends the loop, no entry
\* in the table is a panic
ForceStep ==
    /\ op = "forcing"
    /\ out.tag = "Stuck" /\ out.head.tag = "MetaVar"
    /\ IF out.head.var >= Len(meta_exprs)
       THEN op' = "abort" /\ out' = Abort("UnboundMetaVar")
       ELSE IF IsNone(meta_exprs[out.head.var + 1])
       THEN op' = "force" /\ out' = out
       ELSE /\ out' = apply_spine(Env, meta_exprs[out.head.var + 1], out.spine)
            /\ op' = IF IsAbort(out') THEN "abort" ELSE "forcing"
    /\ UNCHANGED <<item_exprs, meta_exprs, local_exprs, term0, term1, value0, value1,
                   overflow_checks>>

\* the loop ends on a value whose head is no metavariable
ForceReturn ==
    /\ op = "forcing"
    /\ ~(out.tag = "Stuck" /\ out.head.tag = "MetaVar")
    /\ op' = "force"
    /\ out' = out
    /\ UNCHANGED <<item_exprs, meta_exprs, local_exprs, term0, term1, value0, value1,
                   overflow_checks>>

NextForce == ForceBegin \/ ForceStep \/ ForceReturn

\* a call of force that has started keeps running
SpecForce == InitForce /\ [][NextForce]_vars /\ WF_vars(NextForce)


(***************************************************************************)
(* Properties of force                                                     *)
(***************************************************************************)
SolvedHead(v) == v.tag = "Stuck" /\ v.head.tag = "MetaVar" /\ Solved(v.head.var)

\* the eliminations of a spine applied to a value, the first one first
RECURSIVE Eliminate(_, _)
Eliminate(v, spine) ==
    IF spine = <<>> THEN v
    ELSE LET last == spine[Len(spine)]
             inner == Eliminate(v, SubSeq(spine, 1, Len(spine) - 1))
         IN  CASE last.tag = "FunApp" -> fun_app(Env, inner, last.arg_expr)
               [] last.tag = "RecordProj" -> record_proj(inner, last.label)
               [] last.tag = "ConstMatch" -> const_match(Env, inner, last.branches)

\* C14: force returns a value unchanged unless it is Stuck on a solved
\* metavariable; each turn of its loop replaces Stuck(MetaVar m, spine) by
\* the solution of m with the eliminations of the spine applied in order;
\* what it returns is never Stuck on a solved metavariable; and under a
\* table without a cycle of solutions a call that has started returns.
C14_Force ==
    /\ [](op = "force" =>
            /\ ~SolvedHead(value0) => out = value0
            /\ ~SolvedHead(out)
            /\ out = force(Env, value0))
    /\ [][(op = "forcing" /\ op' = "forcing") =>
            /\ SolvedHead(out)
            /\ out' = Eliminate(meta_exprs[out.head.var + 1], out.spine)]_vars
    /\ [](op # "abort")
    /\ ((op = "forcing") ~> (op = "force"))

\* the identity, solution of ?0, was applied twice: ?0 (?0 2) became 2
C14_Witness ==
    /\ op = "force"
    /\ term0 = Term_FunApp(Term_MetaVar(0), Term_FunApp(Term_MetaVar(0), U8Lit(2)))
    /\ meta_exprs[1] = Value_FunLit(Closure(<<>>, Term_LocalVar(0)))
    /\ SolvedHead(value0)
    /\ out = Lit(2)

\* ---------------------------------------------------------------------------
\* Terms read back under a table of solutions
\* ---------------------------------------------------------------------------

\* terms with a metavariable as head, in an argument of a spine, under a
\* binder, in a telescope, in the branches of a match and in a literal
MetaPositionTerms ==
    UNION {{Term_MetaVar(m),
            Term_FunApp(Term_LocalVar(0), Term_MetaVar(m)),
            Term_FunApp(Term_FunApp(U8Add, Term_MetaVar(m)), U8Lit(1)),
            Term_FunLit(Term_MetaVar(m)),
            Term_FunLit(Term_FunApp(Term_LocalVar(0), Term_MetaVar(m))),
            Term_FunType(Term_Universe, Term_MetaVar(m)),
            Term_RecordType(<<"x", "y">>, <<Term_MetaVar(0), Term_MetaVar(m)>>),
            Term_FormatRecord(<<"x", "y">>, <<Term_MetaVar(m), Term_MetaVar(0)>>),
            Term_RecordLit(<<"x">>, <<Term_MetaVar(m)>>),
            Term_ArrayLit(<<Term_MetaVar(m)>>),
            Term_ConstMatch(Term_LocalVar(0),
                            <<[pattern |-> ConstU(LimbBits, IntOf(1), "Decimal"),
                               body |-> Term_MetaVar(m)]>>, Term_MetaVar(0)),
            Term_InsertedMeta(m, <<"Def", "Def">>),
            Term_InsertedMeta(m, <<"Param", "Def">>),
            Term_Let(Term_Universe, Term_MetaVar(m), Term_LocalVar(0))} : m \in Metas}
    \cup {U8Lit(1), Term_LocalVar(0),
          Term_FunApp(Term_MetaVar(0), Term_MetaVar(1)),
          Term_FunApp(Term_MetaVar(0), Term_InsertedMeta(1, <<"Param", "Def">>)),
          Term_RecordProj(Term_MetaVar(0), "x"),
          Term_ConstMatch(Term_MetaVar(0),
                          <<[pattern |-> ConstU(LimbBits, IntOf(1), "Decimal"),
                             body |-> Term_MetaVar(1)]>>, Term_LocalVar(0))}

\* the first metavariable solved to a local variable
LocalSolved == [m \in 1..MaxMetas |-> IF m = 1 THEN local_var(0) ELSE None]

SolutionTables == MetaTables \cup {LocalSolved}

\* a value evaluated while no metavariable had a solution, and the table
\* the unifier has filled in since
InitMetas ==
    /\ item_exprs = <<Lit(1)>>
    /\ local_exprs = [i \in 1..MaxLocals |-> local_var(i - 1)]
    /\ overflow_checks \in BOOLEAN
    /\ meta_exprs \in SolutionTables
    /\ term0 \in MetaPositionTerms
    /\ value0 = eval(ElimEnv(item_exprs, NoSolutions, overflow_checks), local_exprs, term0)
    /\ term1 = Term_Universe
    /\ value1 = Value_Universe
    /\ op = "init"
    /\ out = None

\* QuoteEnv::new(..).unfolding_metas().quote(value)
QuoteUnfoldingMetas ==
    /\ op' = "unfolding_metas"
    /\ out' = quote(Env, Len(local_exprs), TRUE, value0)
    /\ UNCHANGED <<item_exprs, meta_exprs, local_exprs, term0, term1, value0, value1,
                   overflow_checks>>

\* EvalEnv::unfold_metas(term); a TermOrValue::Value is quoted by the caller
UnfoldTerm ==
    /\ op' = "unfold_metas"
    /\ out' = unfold_metas(Env, local_exprs, term0)
    /\ UNCHANGED <<item_exprs, meta_exprs, local_exprs, term0, term1, value0, value1,
                   overflow_checks>>

NextMetas == QuoteUnfoldingMetas \/ UnfoldTerm

SpecMetas == InitMetas /\ [][NextMetas]_vars

\* the term at the head of a chain of eliminations
RECURSIVE SpineHead(_)
SpineHead(t) ==
    IF t.tag \in {"FunApp", "RecordProj", "ConstMatch"} THEN SpineHead(t.head_expr) ELSE t

\* a metavariable with a solution, or a chain of eliminations of one
SolvedSpine(t) ==
    SpineHead(t).tag \in {"MetaVar", "InsertedMeta"} /\ Solved(SpineHead(t).var)

\* the MetaVar and InsertedMeta nodes of a term; with outside, those that
\* are not part of a chain of eliminations of a solved metavariable
RECURSIVE MetaNodes(_, _)
MetaNodes(t, outside) ==
    IF outside /\ SolvedSpine(t) THEN {}
    ELSE
    CASE t.tag \in {"MetaVar", "InsertedMeta"} -> {t}
      [] t.tag = "Ann" -> MetaNodes(t.expr, outside) \cup MetaNodes(t.type, outside)
      [] t.tag = "Let" ->
           MetaNodes(t.def_type, outside) \cup MetaNodes(t.def_expr, outside)
           \cup MetaNodes(t.body_expr, outside)
      [] t.tag = "FunType" ->
           MetaNodes(t.param_type, outside) \cup MetaNodes(t.body_type, outside)
      [] t.tag = "FunLit" -> MetaNodes(t.body_expr, outside)
      [] t.tag = "FunApp" ->
           MetaNodes(t.head_expr, outside) \cup MetaNodes(t.arg_expr, outside)
      [] t.tag = "RecordType" ->
           UNION {MetaNodes(t.types[i], outside) : i \in 1..Len(t.types)}
      [] t.tag \in {"RecordLit", "ArrayLit"} ->
           UNION {MetaNodes(t.exprs[i], outside) : i \in 1..Len(t.exprs)}
      [] t.tag = "RecordProj" -> MetaNodes(t.head_expr, outside)
      [] t.tag \in {"FormatRecord", "FormatOverlap"} ->
           UNION {MetaNodes(t.formats[i], outside) : i \in 1..Len(t.formats)}
      [] t.tag = "FormatCond" ->
           MetaNodes(t.format, outside) \cup MetaNodes(t.cond, outside)
      [] t.tag = "ConstMatch" ->
           MetaNodes(t.head_expr, outside)
           \cup UNION {MetaNodes(t.branches[i].body, outside) : i \in 1..Len(t.branches)}
           \cup (IF IsNone(t.default_expr) THEN {}
                 ELSE MetaNodes(t.default_expr, outside))
      [] OTHER -> {}

MetaNodesIn(t) == MetaNodes(t, FALSE)

\* the metavariables of the MetaVar and InsertedMeta nodes of a term
MetaVarsIn(t) == {n.var : n \in MetaNodesIn(t)}

\* C15: the term quoted with unfolding_metas() has a MetaVar node only for
\* metavariables without a solution, whatever the position of the
\* metavariable in the value, and none when every metavariable is solved
C15_UnfoldingQuote ==
    (op = "unfolding_metas" /\ ~IsAbort(out)) =>
        /\ \A m \in MetaVarsIn(out) : ~Solved(m)
        /\ (\A m \in Metas : Solved(m)) => MetaVarsIn(out) = {}

\* a metavariable under a binder of the value has got a solution, another
\* one has none, and the value has been quoted
C15_Witness ==
    /\ op = "unfolding_metas"
    /\ ~IsAbort(out)
    /\ term0 = Term_RecordType(<<"x", "y">>, <<Term_MetaVar(0), Term_MetaVar(1)>>)
    /\ Solved(0) /\ ~Solved(1)
    /\ MetaVarsIn(out) = {1}

\* the value of a term does not depend on the table of solutions
SameUnderAnyTable(t) ==
    \A table \in SolutionTables :
        eval(ElimEnv(item_exprs, table, overflow_checks), local_exprs, t)
            = eval(Env, local_exprs, t)

\* C16 as stated: the term returned by unfold_metas has no MetaVar or
\* InsertedMeta node of a solved metavariable, every node of an unsolved
\* metavariable of the input is a node of the result, and when every
\* metavariable is solved the result has no such node and has the same value
\* under any table
C16_UnfoldMetas ==
    (op = "unfold_metas" /\ ~IsAbort(out)) =>
        /\ \A n \in MetaNodesIn(out) : ~Solved(n.var)
        /\ \A n \in MetaNodesIn(term0) : ~Solved(n.var) => n \in MetaNodesIn(out)
        /\ (\A m \in Metas : Solved(m)) =>
              MetaNodesIn(out) = {} /\ SameUnderAnyTable(out)

\* C16 amended: the nodes of unsolved metavariables that are kept as they
\* were are those outside the eliminations of a solved metavariable; such an
\* elimination is evaluated and quoted as a whole
C16_UnfoldMetasOutsideSolved ==
    (op = "unfold_metas" /\ ~IsAbort(out)) =>
        /\ \A n \in MetaNodesIn(out) : ~Solved(n.var)
        /\ \A n \in MetaNodes(term0, TRUE) : n \in MetaNodesIn(out)
        /\ (\A m \in Metas : Solved(m)) =>
              MetaNodesIn(out) = {} /\ SameUnderAnyTable(out)

\* a solved metavariable under a binder, beside an unsolved one, unfolded
C16_Witness ==
    /\ op = "unfold_metas"
    /\ ~IsAbort(out)
    /\ term0 = Term_RecordType(<<"x", "y">>, <<Term_MetaVar(0), Term_MetaVar(1)>>)
    /\ Solved(0) /\ ~Solved(1)
    /\ MetaNodesIn(out) = {Term_MetaVar(1)}

\* ---------------------------------------------------------------------------
\* Matches on constants
\* ---------------------------------------------------------------------------

MaxBranches == 2

\* the scrutinees: literals, neutral values and values of other kinds
Scrutinees ==
    {Lit(1), Lit(2), Lit(3),
     local_var(0), meta_var(0), Value_Stuck(Head_LocalVar(1), <<Elim_FunApp(Lit(1))>>),
     Value_Universe, Value_FunLit(Closure(<<>>, Term_LocalVar(0))),
     Value_RecordLit(<<"x">>, <<Lit(1)>>), Value_ArrayLit(<<Lit(1)>>)}

\* the branches: a pattern and a body that is a literal or the newest
\* binding of the environment
PatternBranches ==
    {[pattern |-> ConstU(LimbBits, IntOf(n), "Decimal"), body |-> body] :
        n \in {1, 2}, body \in {U8Lit(10), U8Lit(20), Term_LocalVar(0)}}

BranchLists == UNION {[1..n -> PatternBranches] : n \in 0..MaxBranches}

Defaults == {None, U8Lit(30), Term_LocalVar(0), Term_LocalVar(1)}

InitMatch ==
    /\ item_exprs = <<Lit(1)>>
    /\ meta_exprs = NoSolutions
    /\ local_exprs = [i \in 1..MaxLocals |-> local_var(i - 1)]
    /\ overflow_checks \in BOOLEAN
    /\ term0 = Term_Universe
    /\ \E bs \in BranchLists, d \in Defaults :
          term1 = Term_ConstMatch(Term_Universe, bs, d)
    /\ value0 \in Scrutinees
    /\ value1 = Value_Universe
    /\ op = "init"
    /\ out = None

\* ElimEnv::const_match on the branches closed over the local environment
ConstMatch ==
    /\ op = "init"
    /\ op' = "const_match"
    /\ out' = const_match(Env, value0,
                          Branches(local_exprs, term1.branches, term1.default_expr))
    /\ UNCHANGED <<item_exprs, meta_exprs, local_exprs, term0, term1, value0, value1,
                   overflow_checks>>

NextMatch == ConstMatch

SpecMatch == InitMatch /\ [][NextMatch]_vars

\* the value of a body that is a literal or a local variable
BodyValue(env, body) ==
    IF body.tag = "LocalVar" THEN env[Len(env) - body.var] ELSE Value_ConstLit(body.const)

\* the branches whose pattern is the literal
Matching(bs, lit) == {i \in 1..Len(bs) : bs[i].pattern = lit.const}

\* C17: on a literal const_match gives the body of the first branch whose
\* pattern is the literal, in the captured environment; with no such branch
\* the default body in that environment extended by the scrutinee, or
\* MissingConstDefault without a default; a stuck scrutinee gets the match
\* appended to its spine; any other scrutinee is InvalidConstMatch
C17_ConstMatch ==
    op = "const_match" =>
        LET bs == term1.branches
            default == term1.default_expr
            hits == Matching(bs, value0)
        IN  CASE value0.tag = "ConstLit" ->
                   IF hits # {}
                   THEN \E i \in hits :
                           /\ \A j \in hits : i <= j
                           /\ out = BodyValue(local_exprs, bs[i].body)
                   ELSE IF ~IsNone(default)
                   THEN out = BodyValue(Append(local_exprs, value0), default)
                   ELSE out = Abort("MissingConstDefault")
              [] value0.tag = "Stuck" ->
                   /\ out.tag = "Stuck"
                   /\ out.head = value0.head
                   /\ out.spine =
                        Append(value0.spine,
                               [tag |-> "ConstMatch",
                                branches |-> [local_exprs |-> local_exprs,
                                              pattern_branches |-> bs,
                                              default_expr |-> default]])
              [] OTHER -> out = Abort("InvalidConstMatch")

\* two branches with the pattern of the literal: the first one is taken
C17_Witness ==
    /\ op = "const_match"
    /\ value0 = Lit(1)
    /\ term1.branches =
          <<[pattern |-> ConstU(LimbBits, IntOf(1), "Decimal"), body |-> U8Lit(10)],
            [pattern |-> ConstU(LimbBits, IntOf(1), "Decimal"), body |-> U8Lit(20)]>>
    /\ out = Lit(10)

\* ---------------------------------------------------------------------------
\* Function application
\* ---------------------------------------------------------------------------

MaxSpine == 5

\* primitives of one, two and four parameters
AppliedPrims ==
    {PrimU(LimbBits, "Not"), PrimU(LimbBits, "Add"), Prim0("FormatRepr"),
     PrimW("Array", LimbBits, "Index")}

\* the values applied first: closures, neutral values, unapplied primitives,
\* a primitive under a projection, and values that are no functions
AppHeads ==
    {prim(p, <<>>) : p \in AppliedPrims}
    \cup {Value_FunLit(Closure(<<Lit(7)>>, Term_LocalVar(0))),
          Value_FunLit(Closure(<<Lit(7)>>, Term_LocalVar(1))),
          Value_FunLit(Closure(<<>>, Term_RecordLit(<<"x">>, <<Term_LocalVar(0)>>))),
          local_var(0), meta_var(0),
          Value_Stuck(Head_LocalVar(1), <<Elim_RecordProj("x")>>),
          record_proj(prim(PrimU(LimbBits, "Add"), <<>>), "x"),
          Lit(1), Value_Universe, Value_RecordLit(<<"x">>, <<Lit(1)>>)}

AppArgs ==
    {Lit(1), Lit(2), local_var(0), Value_ArrayLit(<<Lit(10), Lit(20)>>),
     prim(PrimW("FormatU", LimbBits, ""), <<>>)}

InitApp ==
    /\ item_exprs = <<Lit(1)>>
    /\ meta_exprs = NoSolutions
    /\ local_exprs = [i \in 1..MaxLocals |-> local_var(i - 1)]
    /\ overflow_checks \in BOOLEAN
    /\ term0 = Term_Universe
    /\ term1 = Term_Universe
    /\ value0 \in AppHeads
    /\ value1 = Value_Universe
    /\ op = "init"
    /\ out = None

\* ElimEnv::fun_app of the value held, or of the result of the application
\* before, to one more argument
FunAppArg(arg) ==
    /\ \/ op = "init"
       \/ ~IsAbort(out) /\ (out.tag = "Stuck" => Len(out.spine) < MaxSpine)
    /\ value0' = IF op = "init" THEN value0 ELSE out
    /\ value1' = arg
    /\ out' = fun_app(Env, value0', arg)
    /\ op' = "fun_app"
    /\ UNCHANGED <<item_exprs, meta_exprs, local_exprs, term0, term1, overflow_checks>>

NextApp == \E arg \in AppArgs : FunAppArg(arg)

SpecApp == InitApp /\ [][NextApp]_vars

\* the number of parameters of the patterns of prim_step
Arity(p) ==
    CASE p = Prim0("FormatRepr") -> 1
      [] p.fam = "U" /\ p.op = "Not" -> 1
      [] p.fam = "U" /\ p.op = "Add" -> 2
      [] p.fam = "Array" /\ p.op = "Index" -> 4

\* C18: fun_app on a FunLit is the body in the captured environment
\* extended by the argument; on a Stuck value the argument is appended to
\* the spine, unless the head is a primitive whose step fires on the longer
\* spine, which gives the result of the step; a step fires only on a spine
\* of exactly as many FunApp as the primitive has parameters; any other
\* value is InvalidFunctionApp
C18_FunApp ==
    op = "fun_app" =>
        CASE value0.tag = "FunLit" ->
               out = eval(Env, Append(value0.body_expr.local_exprs, value1),
                          value0.body_expr.term)
          [] value0.tag = "Stuck" ->
               LET spine == Append(value0.spine, [tag |-> "FunApp", arg_expr |-> value1])
                   step == IF value0.head.tag = "Prim"
                           THEN prim_step(Env, value0.head.prim, spine) ELSE None
               IN  /\ IsNone(step) => out = [tag |-> "Stuck", head |-> value0.head,
                                             spine |-> spine]
                   /\ ~IsNone(step) =>
                         /\ out = step
                         /\ Len(spine) = Arity(value0.head.prim)
                         /\ \A i \in 1..Len(spine) : spine[i].tag = "FunApp"
          [] OTHER -> out = Abort("InvalidFunctionApp")

\* the second argument of an addition makes the step fire
C18_Witness ==
    /\ op = "fun_app"
    /\ value0 = prim(PrimU(LimbBits, "Add"), <<Lit(1)>>)
    /\ value1 = Lit(2)
    /\ out = Lit(3)

\* ---------------------------------------------------------------------------
\* Inserted metavariables
\* ---------------------------------------------------------------------------

MaxInfos == 3

\* the bindings in scope: a parameter is a local variable, a definition has
\* a value; one binding more than the other specifications hold
ScopeEntries(i) == {local_var(i - 1), Lit(3 + i)}

Scopes ==
    UNION {{env \in [1..n -> UNION {ScopeEntries(i) : i \in 1..n}] :
               \A i \in 1..n : env[i] \in ScopeEntries(i)} :
           n \in 0..(MaxLocals + 1)}

LocalInfos == UNION {[1..n -> {"Def", "Param"}] : n \in 0..MaxInfos}

\* the first metavariable without a solution, or solved to a neutral
\* value, to a function or to a literal
InsertedTables ==
    {NoSolutions}
    \cup {[m \in 1..MaxMetas |-> IF m = 1 THEN solution ELSE None] :
            solution \in {Value_Stuck(Head_LocalVar(0), <<Elim_RecordProj("f")>>),
                          Value_FunLit(Closure(<<>>, Term_LocalVar(0))),
                          Lit(2)}}

InitInserted ==
    /\ item_exprs = <<Lit(1)>>
    /\ meta_exprs \in InsertedTables
    /\ local_exprs \in Scopes
    /\ overflow_checks \in BOOLEAN
    /\ \E m \in Metas, infos \in LocalInfos : term0 = Term_InsertedMeta(m, infos)
    /\ term1 = Term_Universe
    /\ value0 = Value_Universe
    /\ value1 = Value_Universe
    /\ op = "init"
    /\ out = None

\* EvalEnv::eval of Term::InsertedMeta
EvalInserted ==
    /\ op = "init"
    /\ op' = "eval_inserted"
    /\ out' = eval(Env, local_exprs, term0)
    /\ value0' = out'
    /\ UNCHANGED <<item_exprs, meta_exprs, local_exprs, term0, term1, value1,
                   overflow_checks>>

NextInserted == EvalInserted

SpecInserted == InitInserted /\ [][NextInserted]_vars

\* the bindings among the first min(len(infos), len(env)) whose LocalInfo
\* is Param, the outermost first, as function applications
RECURSIVE ParamSpine(_, _, _)
ParamSpine(env, infos, i) ==
    IF i > Len(infos) \/ i > Len(env) THEN <<>>
    ELSE (IF infos[i] = "Param" THEN <<[tag |-> "FunApp", arg_expr |-> env[i]]>> ELSE <<>>)
         \o ParamSpine(env, infos, i + 1)

\* the number of Param among the first n infos
ParamCount(infos, n) == Cardinality({i \in 1..n : infos[i] = "Param"})

\* C19: InsertedMeta(m, infos) evaluates to the value of m applied, the
\* outermost binding first, to the bindings whose LocalInfo is Param among
\* the first min(len(infos), len(env)): for an unsolved m that is
\* Stuck(MetaVar m, spine) with one FunApp for each of them, for a solved m
\* the solution applied to the same arguments
C19_InsertedMeta ==
    op = "eval_inserted" =>
        LET m == term0.var
            infos == term0.infos
            n == IF Len(infos) < Len(local_exprs) THEN Len(infos) ELSE Len(local_exprs)
            spine == ParamSpine(local_exprs, infos, 1)
        IN  IF Solved(m)
            THEN out = Eliminate(meta_exprs[m + 1], spine)
            ELSE /\ out = [tag |-> "Stuck", head |-> [tag |-> "MetaVar", var |-> m],
                           spine |-> spine]
                 /\ Len(out.spine) = ParamCount(infos, n)

\* a parameter, a definition and a parameter in scope, the metavariable
\* unsolved: two applications, none to the definition
C19_Witness ==
    /\ op = "eval_inserted"
    /\ term0.infos = <<"Param", "Def", "Param">>
    /\ local_exprs = <<local_var(0), Lit(5), local_var(2)>>
    /\ ~Solved(term0.var)
    /\ out = Value_Stuck(Head_MetaVar(term0.var),
                         <<Elim_FunApp(local_var(0)), Elim_FunApp(local_var(2))>>)

\* ---------------------------------------------------------------------------
\* Array{N}Index
\* ---------------------------------------------------------------------------

\* the array of the example: [10, 20, 30, 40]
ExampleElems == <<Lit(10), Lit(20), Lit(30), Lit(40)>>

\* indices: unsigned literals of every width within and past the arrays,
\* large ones, signed ones, a boolean, and values that are no literals
IndexValues ==
    {Value_ConstLit(ConstU(w, IntOf(k), "Decimal")) :
        w \in Widths, k \in 0..Len(ExampleElems)}
    \cup {Value_ConstLit(ConstU(LimbBits + LimbBits, IntOf(LimbBase), "Decimal")),
          Value_ConstLit(ConstU(LimbBits * LimbBits, UIntMax(LimbBits * LimbBits), "Decimal")),
          Value_ConstLit(ConstS(LimbBits, IntOf(1))),
          Value_ConstLit(ConstS(LimbBits, IntOf(0 - 1))),
          Value_ConstLit(ConstBool(TRUE)),
          local_var(0), Value_Universe}

\* arrays: literals of every length up to MaxArrayLen, the array of the
\* example, and values that are no array literals
ArrayValues ==
    {Value_ArrayLit(SubSeq(ExampleElems, 1, n)) : n \in 0..MaxArrayLen}
    \cup {Value_ArrayLit(ExampleElems), local_var(1), Lit(1),
          Value_RecordLit(<<"x">>, <<Lit(1)>>)}

InitIndex ==
    /\ item_exprs = <<Lit(1)>>
    /\ meta_exprs = NoSolutions
    /\ local_exprs = [i \in 1..MaxLocals |-> local_var(i - 1)]
    /\ overflow_checks \in BOOLEAN
    /\ \E w \in Widths : term0 = Term_Prim(PrimW("Array", w, "Index"))
    /\ term1 = Term_Universe
    /\ value0 \in IndexValues
    /\ value1 \in ArrayValues
    /\ op = "init"
    /\ out = None

\* the arguments before the index: a length and an element type
IndexPrefix(p) ==
    <<Value_ConstLit(ConstU(p.w, IntOf(Len(ExampleElems)), "Decimal")),
      prim(PrimW("U", LimbBits, "Type"), <<>>)>>

\* Array{N}Index applied to a length, an element type, the index and the
\* array, one fun_app after the other
ArrayIndex ==
    /\ op = "init"
    /\ op' = "array_index"
    /\ out' = fun_app(Env,
                fun_app(Env,
                  fun_app(Env,
                    fun_app(Env, eval(Env, local_exprs, term0), IndexPrefix(term0.prim)[1]),
                    IndexPrefix(term0.prim)[2]),
                  value0),
                value1)
    /\ UNCHANGED <<item_exprs, meta_exprs, local_exprs, term0, term1, value0, value1,
                   overflow_checks>>

NextIndex == ArrayIndex

SpecIndex == InitIndex /\ [][NextIndex]_vars

\* the positions of an array that the literal index names
Indexed(index, elems) ==
    {k \in 1..Len(elems) :
        /\ index.tag = "ConstLit"
        /\ ~index.const.ty.signed /\ index.const.ty.w \in Widths
        /\ index.const.val = IntOf(k - 1)}

\* C20: Array{N}Index on a length, an element type, an unsigned literal i
\* and an array literal gives the element at position i when there is one;
\* with an index out of range, an index that is no unsigned literal or an
\* array that is no literal, the application stays stuck and nothing aborts
C20_ArrayIndex ==
    op = "array_index" =>
        LET hits == IF value1.tag = "ArrayLit" THEN Indexed(value0, value1.exprs) ELSE {}
        IN  IF hits # {}
            THEN \A k \in hits : out = value1.exprs[k]
            ELSE out = [tag |-> "Stuck",
                        head |-> [tag |-> "Prim", prim |-> term0.prim],
                        spine |-> [j \in 1..4 |->
                                     [tag |-> "FunApp",
                                      arg_expr |-> (IndexPrefix(term0.prim)
                                                      \o <<value0, value1>>)[j]]]]

\* array16-index 2 [10, 20, 30, 40] is 30
C20_Witness ==
    /\ op = "array_index"
    /\ term0 = Term_Prim(PrimW("Array", LimbBits + LimbBits, "Index"))
    /\ value0 = Value_ConstLit(ConstU(LimbBits + LimbBits, IntOf(2), "Decimal"))
    /\ value1 = Value_ArrayLit(ExampleElems)
    /\ out = Lit(30)

\* ---------------------------------------------------------------------------
\* Array{N}Find
\* ---------------------------------------------------------------------------

\* predicates: a comparison with a literal, constant functions, the
\* identity, and a variable
FindPreds ==
    {prim(PrimU(LimbBits, name), <<Lit(n)>>) : name \in {"Eq", "Neq"}, n \in {10, 20}}
    \cup {Value_FunLit(Closure(<<>>, Term_ConstLit(ConstBool(b)))) : b \in BOOLEAN}
    \cup {Value_FunLit(Closure(<<>>, Term_LocalVar(0))), local_var(0)}

\* elements: literals, a boolean, and a variable that no comparison decides
FindElems == {Lit(10), Lit(20), Value_ConstLit(ConstBool(TRUE)), local_var(1)}

\* arrays of up to one element more than the arrays of the other
\* specifications, and values that are no array literals
FindArrays ==
    UNION {{Value_ArrayLit(elems) : elems \in [1..n -> FindElems]} :
           n \in 0..(MaxArrayLen + 1)}
    \cup {local_var(1), Lit(1)}

InitFind ==
    /\ item_exprs = <<Lit(1)>>
    /\ meta_exprs = NoSolutions
    /\ local_exprs = [i \in 1..MaxLocals |-> local_var(i - 1)]
    /\ overflow_checks \in BOOLEAN
    /\ \E w \in Widths : term0 = Term_Prim(PrimW("Array", w, "Find"))
    /\ term1 = Term_Universe
    /\ value0 \in FindPreds
    /\ value1 \in FindArrays
    /\ op = "init"
    /\ out = None

\* Array{N}Find applied to a length, an element type, the predicate and the
\* array, one fun_app after the other
ArrayFind ==
    /\ op = "init"
    /\ op' = "array_find"
    /\ out' = fun_app(Env,
                fun_app(Env,
                  fun_app(Env,
                    fun_app(Env, eval(Env, local_exprs, term0), IndexPrefix(term0.prim)[1]),
                    IndexPrefix(term0.prim)[2]),
                  value0),
                value1)
    /\ UNCHANGED <<item_exprs, meta_exprs, local_exprs, term0, term1, value0, value1,
                   overflow_checks>>

NextFind == ArrayFind

SpecFind == InitFind /\ [][NextFind]_vars

\* the predicate applied to an element is the literal b
Yields(elem, b) == fun_app(Env, value0, elem) = [tag |-> "ConstLit", const |-> ConstBool(b)]

\* C21: Array{N}Find on an array literal gives OptionSome(e) for the first
\* element e on which the predicate is the literal true when it is the
\* literal false on every element before; OptionNone when it is the literal
\* false on every element; and it stays stuck when the first element on
\* which it is not the literal false gives no boolean literal
C21_ArrayFind ==
    (op = "array_find" /\ value1.tag = "ArrayLit") =>
        LET elems == value1.exprs
            open == {i \in 1..Len(elems) : ~Yields(elems[i], FALSE)}
        IN  IF open = {}
            THEN out = [tag |-> "Stuck",
                        head |-> [tag |-> "Prim", prim |-> Prim0("OptionNone")],
                        spine |-> <<>>]
            ELSE \E i \in open :
                    /\ \A j \in open : i <= j
                    /\ IF Yields(elems[i], TRUE)
                       THEN out = [tag |-> "Stuck",
                                   head |-> [tag |-> "Prim", prim |-> Prim0("OptionSome")],
                                   spine |-> <<[tag |-> "FunApp", arg_expr |-> elems[i]]>>]
                       ELSE out = [tag |-> "Stuck",
                                   head |-> [tag |-> "Prim", prim |-> term0.prim],
                                   spine |-> [j \in 1..4 |->
                                                [tag |-> "FunApp",
                                                 arg_expr |-> (IndexPrefix(term0.prim)
                                                                 \o <<value0, value1>>)[j]]]]

\* the second element is the first one equal to 20; the one after it is
\* never looked at
C21_Witness ==
    /\ op = "array_find"
    /\ value0 = prim(PrimU(LimbBits, "Eq"), <<Lit(20)>>)
    /\ value1 = Value_ArrayLit(<<Lit(10), Lit(20), local_var(1)>>)
    /\ out = prim(Prim0("OptionSome"), <<Lit(20)>>)

\* ---------------------------------------------------------------------------
\* Captured environments
\* ---------------------------------------------------------------------------

\* terms whose value holds a closure, a telescope or a set of branches; the
\* bodies read the argument and the bindings around the term
CapturingTerms ==
    {Term_FunLit(Term_LocalVar(i)) : i \in 0..MaxLocals}
    \cup {Term_FunType(Term_Universe, Term_LocalVar(i)) : i \in 0..MaxLocals}
    \cup {Term_RecordType(<<"x", "y">>, <<Term_LocalVar(0), Term_LocalVar(1)>>),
          Term_FormatRecord(<<"x">>, <<Term_LocalVar(0)>>),
          Term_ConstMatch(Term_ItemVar(1), <<>>, Term_LocalVar(1))}

\* the values bound around the term
BoundValues == {Lit(7), Lit(8)}

InitClosure ==
    /\ item_exprs = <<Lit(1), local_var(0)>>
    /\ meta_exprs = NoSolutions
    /\ local_exprs \in UNION {[1..n -> BoundValues] : n \in 1..MaxLocals}
    /\ overflow_checks \in BOOLEAN
    /\ term0 \in CapturingTerms
    /\ term1 = Term_Universe
    /\ value0 = Value_Universe
    /\ value1 = Value_Universe
    /\ op = "init"
    /\ out = None

\* EvalEnv::eval of the term: Closure::new, Telescope::new or
\* Branches::new on a clone of the environment
Capture ==
    /\ op = "init"
    /\ op' = "eval"
    /\ value0' = eval(Env, local_exprs, term0)
    /\ out' = value0'
    /\ UNCHANGED <<item_exprs, meta_exprs, local_exprs, term0, term1, value1,
                   overflow_checks>>

\* the evaluator goes on: self.local_exprs.push(..)
PushLocal(value) ==
    /\ op # "init"
    /\ Len(local_exprs) <= MaxLocals
    /\ local_exprs' = Append(local_exprs, value)
    /\ op' = "push"
    /\ UNCHANGED <<item_exprs, meta_exprs, term0, term1, value0, value1, out,
                   overflow_checks>>

\* self.local_exprs.pop()
PopLocal ==
    /\ op # "init"
    /\ local_exprs # <<>>
    /\ local_exprs' = SubSeq(local_exprs, 1, Len(local_exprs) - 1)
    /\ op' = "pop"
    /\ UNCHANGED <<item_exprs, meta_exprs, term0, term1, value0, value1, out,
                   overflow_checks>>

\* the closure of a function or of a function type
ClosureOf(value) == IF value.tag = "FunLit" THEN value.body_expr ELSE value.body_type

\* ElimEnv::apply_closure of the closure held
ApplyClosure(arg) ==
    /\ op # "init"
    /\ value0.tag \in {"FunLit", "FunType"}
    /\ value1' = arg
    /\ out' = apply_closure(Env, ClosureOf(value0), arg)
    /\ op' = "apply_closure"
    /\ UNCHANGED <<item_exprs, meta_exprs, local_exprs, term0, term1, value0,
                   overflow_checks>>

NextClosure ==
    \/ Capture
    \/ \E value \in BoundValues : PushLocal(value)
    \/ PopLocal
    \/ \E arg \in {Lit(1), Lit(2)} : ApplyClosure(arg)

SpecClosure == InitClosure /\ [][NextClosure]_vars

\* the environment stored in the closure, the telescope or the branches of
\* a value
CapturedEnv(value) ==
    CASE value.tag = "FunLit" -> value.body_expr.local_exprs
      [] value.tag = "FunType" -> value.body_type.local_exprs
      [] value.tag = "RecordType" -> value.types.local_exprs
      [] value.tag = "FormatRecord" -> value.formats.local_exprs
      [] value.tag = "Stuck" -> value.spine[1].branches.local_exprs

\* the body of a closure on the bindings env, the newest last
BodyOn(closure, env) ==
    IF closure.term.var < Len(env) THEN env[Len(env) - closure.term.var]
    ELSE Abort("UnboundLocalVar")

\* C22: the value of eval stores the environment as it is at that moment;
\* no later push, pop or application changes what is stored; and each
\* application evaluates the body in the stored environment extended with
\* the argument, wherever the environment of the evaluator has got to
C22_CapturedEnvKept ==
    /\ [][op = "init" => CapturedEnv(value0') = local_exprs]_vars
    /\ [][op # "init" => value0' = value0]_vars
    /\ [][op' = "apply_closure" =>
            out' = BodyOn(ClosureOf(value0), Append(CapturedEnv(value0), value1'))]_vars

\* a closure applied after the environment it was made in has been popped
\* and pushed to other bindings: its body still reads the old binding
C22_Witness ==
    /\ op = "apply_closure"
    /\ term0 = Term_FunLit(Term_LocalVar(1))
    /\ CapturedEnv(value0) = <<Lit(7)>>
    /\ local_exprs = <<Lit(8), Lit(8)>>
    /\ out = Lit(7)

(***************************************************************************)
(* experiments/rust-minimal: the core language, its semantics and the      *)
(* elaborator.  A Result is the value itself or Err(error); an unwrap of  *)
(* None is an Abort.  Names are strings and are not compared by the        *)
(* semantics.                                                              *)
(***************************************************************************)

Err(error) == [tag |-> "Err", err |-> error]
IsErr(x) == x.tag = "Err"

\* EnvLen::local_to_global, global_to_local, next_global, add_param
local_to_global(len, local) == IF local < len THEN len - local - 1 ELSE 0 - 1
global_to_local(len, global) == IF global < len THEN len - global - 1 ELSE 0 - 1
next_global(len) == len
add_param(len) == len + 1

\* Env::get_global and Env::get_local on the entries of an environment
get_global(entries, global) ==
    IF 0 <= global /\ global < Len(entries) THEN entries[global + 1] ELSE None
get_local(entries, local) == get_global(entries, local_to_global(Len(entries), local))

\* core::Term; the three terms of a Let are its second, third and fourth
\* positional fields
core_Var(local) == [tag |-> "Var", var |-> local]
core_Let(name, p1, p2, p3) == [tag |-> "Let", name |-> name, p1 |-> p1, p2 |-> p2, p3 |-> p3]
core_Universe == [tag |-> "Universe"]
core_FunType(name, input_type, output_type) ==
    [tag |-> "FunType", name |-> name, input_type |-> input_type,
     output_type |-> output_type]
core_FunIntro(name, output_expr) ==
    [tag |-> "FunIntro", name |-> name, output_expr |-> output_expr]
core_FunElim(head_expr, input_expr) ==
    [tag |-> "FunElim", head_expr |-> head_expr, input_expr |-> input_expr]

\* core::semantics::Value, Elim and Closure
semantics_Stuck(global, elims) == [tag |-> "Stuck", global |-> global, elims |-> elims]
semantics_Universe == [tag |-> "Universe"]
semantics_FunType(name, input_type, output_type) ==
    [tag |-> "FunType", name |-> name, input_type |-> input_type,
     output_type |-> output_type]
semantics_FunIntro(name, output_expr) ==
    [tag |-> "FunIntro", name |-> name, output_expr |-> output_expr]
semantics_Fun(input_expr) == [tag |-> "Fun", input_expr |-> input_expr]
Closure_new(env, body_expr) == [env |-> env, body_expr |-> body_expr]

\* the operations of core::semantics call one another through Minimal
RECURSIVE Minimal(_)
MinimalCall(name, args) == Minimal([f |-> name, a |-> args])

core_eval(a, b) == MinimalCall("eval", <<a, b>>)
core_apply(a, b) == MinimalCall("apply", <<a, b>>)
core_readback(a, b) == MinimalCall("readback", <<a, b>>)
core_readback_elims(a, b, c, d) == MinimalCall("readback_elims", <<a, b, c, d>>)
core_is_equal(a, b, c) == MinimalCall("is_equal", <<a, b, c>>)
core_is_equal_elims(a, b, c, d) == MinimalCall("is_equal_elims", <<a, b, c, d>>)
elab_check(a, b, c) == MinimalCall("check", <<a, b, c>>)
elab_synth(a, b) == MinimalCall("synth", <<a, b>>)

\* Closure::apply
Closure_apply(closure, input_expr) ==
    core_eval(Append(closure.env, input_expr), closure.body_expr)

\* core::semantics::fun_elim
fun_elim(head_expr, input_expr) ==
    CASE head_expr.tag = "FunIntro" -> core_apply(head_expr.output_expr, input_expr)
      [] head_expr.tag = "Stuck" ->
           semantics_Stuck(head_expr.global,
                           Append(head_expr.elims, semantics_Fun(input_expr)))
      [] OTHER -> Err("InvalidFunctionElimHead")

\* core::semantics::eval
core_semantics_eval(env, term) ==
    CASE term.tag = "Var" ->
           IF IsNone(get_local(env, term.var)) THEN Err("MisboundLocal")
           ELSE get_local(env, term.var)
      [] term.tag = "Let" ->
           LET expr == core_eval(env, term.p2)
           IN  IF IsErr(expr) THEN expr
               ELSE core_eval(Append(env, expr), term.p3)
      [] term.tag = "Universe" -> semantics_Universe
      [] term.tag = "FunType" ->
           LET input_type == core_eval(env, term.input_type)
           IN  IF IsErr(input_type) THEN input_type
               ELSE semantics_FunType(term.name, input_type,
                                      Closure_new(env, term.output_type))
      [] term.tag = "FunIntro" ->
           semantics_FunIntro(term.name, Closure_new(env, term.output_expr))
      [] term.tag = "FunElim" ->
           LET head_expr == core_eval(env, term.head_expr)
               input_expr == core_eval(env, term.input_expr)
           IN  IF IsErr(head_expr) THEN head_expr
               ELSE IF IsErr(input_expr) THEN input_expr
               ELSE fun_elim(head_expr, input_expr)

\* the loop of readback over elims[i..]
core_semantics_readback_elims(env_len, head_expr, elims, i) ==
    IF i > Len(elims) THEN head_expr
    ELSE LET input_expr == core_readback(env_len, elims[i].input_expr)
         IN  IF IsErr(input_expr) \/ IsAbort(input_expr) THEN input_expr
             ELSE core_readback_elims(env_len, core_FunElim(head_expr, input_expr),
                                      elims, i + 1)

\* core::semantics::readback
core_semantics_readback(env_len, value) ==
    CASE value.tag = "Stuck" ->
           IF global_to_local(env_len, value.global) < 0 THEN Abort("unwrap")
           ELSE core_readback_elims(env_len,
                    core_Var(global_to_local(env_len, value.global)), value.elims, 1)
      [] value.tag = "Universe" -> core_Universe
      [] value.tag = "FunType" ->
           LET input_type == core_readback(env_len, value.input_type)
               var == semantics_Stuck(next_global(env_len), <<>>)
               output_value == core_apply(value.output_type, var)
               output_type == core_readback(add_param(env_len), output_value)
           IN  IF IsErr(input_type) \/ IsAbort(input_type) THEN input_type
               ELSE IF IsErr(output_value) THEN output_value
               ELSE IF IsErr(output_type) \/ IsAbort(output_type) THEN output_type
               ELSE core_FunType(value.name, input_type, output_type)
      [] value.tag = "FunIntro" ->
           LET var == semantics_Stuck(next_global(env_len), <<>>)
               output_value == core_apply(value.output_expr, var)
               output_expr == core_readback(add_param(env_len), output_value)
           IN  IF IsErr(output_value) THEN output_value
               ELSE IF IsErr(output_expr) \/ IsAbort(output_expr) THEN output_expr
               ELSE core_FunIntro(value.name, output_expr)

\* core::semantics::normalise
core_normalise(env, term) ==
    LET value == core_eval(env, term)
    IN  IF IsErr(value) THEN value ELSE core_readback(Len(env), value)

\* the loop of is_equal over the zipped eliminations from position i
core_semantics_is_equal_elims(env_len, elims0, elims1, i) ==
    IF i > Len(elims0) THEN Ok(TRUE)
    ELSE LET equal == core_is_equal(env_len, elims0[i].input_expr, elims1[i].input_expr)
         IN  IF IsErr(equal) THEN equal
             ELSE IF ~equal.val THEN Ok(FALSE)
             ELSE core_is_equal_elims(env_len, elims0, elims1, i + 1)

\* a comparison that gives false when only the second application fails
is_equal_applied_leniently(env_len, applied0, applied1) ==
    IF IsErr(applied0) THEN applied0
    ELSE IF IsErr(applied1) THEN Ok(FALSE)
    ELSE core_is_equal(add_param(env_len), applied0, applied1)

\* the values of two closures on the same fresh variable, compared
is_equal_applied(env_len, applied0, applied1) ==
    IF IsErr(applied0) THEN applied0
    ELSE IF IsErr(applied1) THEN applied1
    ELSE core_is_equal(add_param(env_len), applied0, applied1)

\* core::semantics::is_equal
core_semantics_is_equal(env_len, v0, v1) ==
    LET var == semantics_Stuck(next_global(env_len), <<>>)
    IN  IF v0.tag = "Stuck" /\ v1.tag = "Stuck"
        THEN IF v0.global # v1.global \/ Len(v0.elims) # Len(v1.elims) THEN Ok(FALSE)
             ELSE core_is_equal_elims(env_len, v0.elims, v1.elims, 1)
        ELSE IF v0.tag = "Universe" /\ v1.tag = "Universe" THEN Ok(TRUE)
        ELSE IF v0.tag = "FunType" /\ v1.tag = "FunType"
        THEN LET inputs == core_is_equal(env_len, v0.input_type, v1.input_type)
             IN  IF IsErr(inputs) THEN inputs
                 ELSE IF ~inputs.val THEN Ok(FALSE)
                 ELSE is_equal_applied(env_len, core_apply(v0.output_type, var),
                                       core_apply(v1.output_type, var))
        ELSE IF v0.tag = "FunIntro" /\ v1.tag = "FunIntro"
        THEN is_equal_applied(env_len, core_apply(v0.output_expr, var),
                              core_apply(v1.output_expr, var))
        ELSE IF v0.tag = "FunIntro"
        THEN is_equal_applied(env_len, core_apply(v0.output_expr, var),
                              fun_elim(v1, var))
        ELSE IF v1.tag = "FunIntro"
        THEN is_equal_applied(env_len, fun_elim(v0, var),
                              core_apply(v1.output_expr, var))
        ELSE Ok(FALSE)

\* surface::Term
surface_Var(name) == [tag |-> "Var", name |-> name]
surface_Let(name, def_type, def_expr, body_expr) ==
    [tag |-> "Let", name |-> name, def_type |-> def_type, def_expr |-> def_expr,
     body_expr |-> body_expr]
surface_Universe == [tag |-> "Universe"]
surface_FunType(name, input_type, output_type) ==
    [tag |-> "FunType", name |-> name, input_type |-> input_type,
     output_type |-> output_type]
surface_FunIntro(name, output_expr) ==
    [tag |-> "FunIntro", name |-> name, output_expr |-> output_expr]
surface_FunElim(head_expr, input_expr) ==
    [tag |-> "FunElim", head_expr |-> head_expr, input_expr |-> input_expr]

\* Option::Some; a call on the context gives the context it leaves and
\* its Option
Some(x) == [tag |-> "Some", val |-> x]
Returned(ctx, res) == [ctx |-> ctx, res |-> res]

\* Context::new
Context_new == [types |-> <<>>, env |-> <<>>, messages |-> <<>>]

\* a pop that forgets the value environment
pop_types_only(ctx) ==
    [ctx EXCEPT !.types = SubSeq(ctx.types, 1, Len(ctx.types) - 1)]

\* Context::push_entry, push_param, pop_entry and report
push_entry(ctx, name, value, type) ==
    [ctx EXCEPT !.types = Append(ctx.types, [name |-> name, type |-> type]),
                !.env = Append(ctx.env, value)]
push_param(ctx, name, type) ==
    push_entry(ctx, name, semantics_Stuck(next_global(Len(ctx.env)), <<>>), type)
pop_entry(ctx) ==
    [ctx EXCEPT !.types = SubSeq(ctx.types, 1, Len(ctx.types) - 1),
                !.env = SubSeq(ctx.env, 1, Len(ctx.env) - 1)]
report(ctx, message) ==
    Returned([ctx EXCEPT !.messages = Append(ctx.messages, message)], None)

\* Context::eval and Context::is_equal: `.ok()` turns an error into None
Context_eval(ctx, term) ==
    IF IsErr(core_eval(ctx.env, term)) THEN None ELSE core_eval(ctx.env, term)
Context_is_equal(ctx, v0, v1) ==
    IF IsErr(core_is_equal(Len(ctx.env), v0, v1)) THEN None
    ELSE Some(core_is_equal(Len(ctx.env), v0, v1).val)

\* the first four statements of the Let arms of check and synth: the type
\* and the definition are checked and evaluated
let_def(ctx, surface_term) ==
    LET def_type == elab_check(ctx, surface_term.def_type, semantics_Universe)
    IN  IF IsNone(def_type.res) THEN def_type
        ELSE
        LET def_type_value == Context_eval(def_type.ctx, def_type.res.val)
        IN  IF IsNone(def_type_value) THEN Returned(def_type.ctx, None)
            ELSE
            LET def_expr == elab_check(def_type.ctx, surface_term.def_expr, def_type_value)
            IN  IF IsNone(def_expr.res) THEN def_expr
                ELSE
                LET def_expr_value == Context_eval(def_expr.ctx, def_expr.res.val)
                IN  IF IsNone(def_expr_value) THEN Returned(def_expr.ctx, None)
                    ELSE Returned(def_expr.ctx,
                                  Some([def_type |-> def_type.res.val,
                                        def_type_value |-> def_type_value,
                                        def_expr |-> def_expr.res.val,
                                        def_expr_value |-> def_expr_value]))

\* Context::check; `?` returns None with the context as it is then
Context_check(ctx, surface_term, expected_type) ==
    IF surface_term.tag = "Let"
    THEN LET def == let_def(ctx, surface_term)
         IN  IF IsNone(def.res) THEN def
             ELSE
             LET body_expr ==
                   elab_check(push_entry(def.ctx, surface_term.name,
                                         def.res.val.def_expr_value,
                                         def.res.val.def_type_value),
                              surface_term.body_expr, expected_type)
             IN  IF IsNone(body_expr.res) THEN body_expr
                 ELSE Returned(pop_entry(body_expr.ctx),
                               Some(core_Let(surface_term.name, def.res.val.def_expr,
                                             def.res.val.def_type, body_expr.res.val)))
    ELSE IF surface_term.tag = "FunIntro" /\ expected_type.tag = "FunType"
    THEN LET pushed == push_param(ctx, surface_term.name, expected_type.input_type)
             input_expr == semantics_Stuck(next_global(Len(ctx.env)), <<>>)
             output_type == core_apply(expected_type.output_type, input_expr)
         IN  IF IsErr(output_type) THEN Returned(pushed, None)
             ELSE
             LET output_expr == elab_check(pushed, surface_term.output_expr, output_type)
             IN  IF IsNone(output_expr.res) THEN output_expr
                 ELSE Returned(pop_entry(output_expr.ctx),
                               Some(core_FunIntro(surface_term.name, output_expr.res.val)))
    ELSE LET synth == elab_synth(ctx, surface_term)
         IN  IF IsNone(synth.res) THEN synth
             ELSE
             LET equal == Context_is_equal(synth.ctx, synth.res.val.type, expected_type)
             IN  IF IsNone(equal) THEN Returned(synth.ctx, None)
                 ELSE IF equal.val THEN Returned(synth.ctx, Some(synth.res.val.term))
                 ELSE report(synth.ctx, "error: type mismatch")

\* the index of the newest entry of the type environment with the name,
\* -1 when there is none
NameIndex(types, name) ==
    IF \E k \in 1..Len(types) : types[k].name = name
    THEN Len(types) - (CHOOSE k \in 1..Len(types) :
                          /\ types[k].name = name
                          /\ \A j \in (k + 1)..Len(types) : types[j].name # name)
    ELSE 0 - 1

\* Context::synth
Context_synth(ctx, surface_term) ==
    CASE surface_term.tag = "Var" ->
           LET i == NameIndex(ctx.types, surface_term.name)
           IN  IF i < 0 THEN report(ctx, "error: variable out of scope")
               ELSE Returned(ctx, Some([term |-> core_Var(i),
                                        type |-> ctx.types[Len(ctx.types) - i].type]))
      [] surface_term.tag = "Let" ->
           LET def == let_def(ctx, surface_term)
           IN  IF IsNone(def.res) THEN def
               ELSE
               LET body == elab_synth(push_entry(def.ctx, surface_term.name,
                                                 def.res.val.def_expr_value,
                                                 def.res.val.def_type_value),
                                      surface_term.body_expr)
               IN  IF IsNone(body.res) THEN body
                   ELSE Returned(pop_entry(body.ctx),
                                 Some([term |-> core_Let(surface_term.name,
                                                         def.res.val.def_expr,
                                                         def.res.val.def_type,
                                                         body.res.val.term),
                                       type |-> body.res.val.type]))
      [] surface_term.tag = "Universe" ->
           Returned(ctx, Some([term |-> core_Universe, type |-> semantics_Universe]))
      [] surface_term.tag = "FunType" ->
           LET input_type == elab_check(ctx, surface_term.input_type, semantics_Universe)
           IN  IF IsNone(input_type.res) THEN input_type
               ELSE
               LET input_type_value == Context_eval(input_type.ctx, input_type.res.val)
               IN  IF IsNone(input_type_value) THEN Returned(input_type.ctx, None)
                   ELSE
                   LET output_type ==
                         elab_check(push_param(input_type.ctx, surface_term.name,
                                               input_type_value),
                                    surface_term.output_type, semantics_Universe)
                   IN  IF IsNone(output_type.res) THEN output_type
                       ELSE Returned(pop_entry(output_type.ctx),
                                     Some([term |-> core_FunType(surface_term.name,
                                                                 input_type.res.val,
                                                                 output_type.res.val),
                                           type |-> semantics_Universe]))
      [] surface_term.tag = "FunIntro" ->
           report(ctx, "error: ambiguous function introduction")
      [] surface_term.tag = "FunElim" ->
           LET head == elab_synth(ctx, surface_term.head_expr)
           IN  IF IsNone(head.res) THEN head
               ELSE IF head.res.val.type.tag # "FunType"
               THEN report(head.ctx, "error: expected a function type")
               ELSE
               LET input_expr == elab_check(head.ctx, surface_term.input_expr,
                                            head.res.val.type.input_type)
               IN  IF IsNone(input_expr.res) THEN input_expr
                   ELSE
                   LET input_expr_value == Context_eval(input_expr.ctx, input_expr.res.val)
                   IN  IF IsNone(input_expr_value) THEN Returned(input_expr.ctx, None)
                       ELSE
                       LET output_type == core_apply(head.res.val.type.output_type,
                                                     input_expr_value)
                       IN  IF IsErr(output_type) THEN Returned(input_expr.ctx, None)
                           ELSE Returned(input_expr.ctx,
                                         Some([term |-> core_FunElim(head.res.val.term,
                                                                     input_expr.res.val),
                                               type |-> output_type]))

Minimal(c) ==
    CASE c.f = "eval" -> core_semantics_eval(c.a[1], c.a[2])
      [] c.f = "apply" -> Closure_apply(c.a[1], c.a[2])
      [] c.f = "readback" -> core_semantics_readback(c.a[1], c.a[2])
      [] c.f = "readback_elims" ->
           core_semantics_readback_elims(c.a[1], c.a[2], c.a[3], c.a[4])
      [] c.f = "is_equal" -> core_semantics_is_equal(c.a[1], c.a[2], c.a[3])
      [] c.f = "is_equal_elims" ->
           core_semantics_is_equal_elims(c.a[1], c.a[2], c.a[3], c.a[4])
      [] c.f = "check" -> Context_check(c.a[1], c.a[2], c.a[3])
      [] c.f = "synth" -> Context_synth(c.a[1], c.a[2])

(***************************************************************************)
(* The elaborator at work: one context lives through a sequence of check   *)
(* and synth calls.  value0 is the context, value1 the context as it was   *)
(* on entry to the last call, term0 the surface term of the call, term1    *)
(* the expected type of a check and out the Option returned.               *)
(***************************************************************************)

MaxStack == 2
MaxMessages == 2

\* (y : Type) -> Type
TypeToType == surface_FunType("y", surface_Universe, surface_Universe)

\* let x : (y : Type) -> Type = fun y => y in x
LetIdentity ==
    surface_Let("x", TypeToType, surface_FunIntro("y", surface_Var("y")),
                surface_Var("x"))

SurfaceTerms ==
    {surface_Universe, surface_Var("x"), surface_Var("y"), TypeToType,
     surface_FunType("x", surface_Universe, surface_Var("x")),
     surface_FunType("x", surface_Universe, surface_Var("y")),
     surface_Let("x", surface_Universe, TypeToType, surface_Var("x")),
     surface_Let("x", surface_Universe, surface_Universe, surface_Var("x")),
     surface_Let("x", surface_Universe, surface_Universe, surface_Var("y")),
     surface_Let("x", surface_Universe, surface_FunIntro("y", surface_Var("y")),
                 surface_Var("x")),
     LetIdentity,
     surface_FunIntro("x", surface_Var("x")),
     surface_FunIntro("x", surface_Var("y")),
     surface_FunElim(LetIdentity, surface_Universe),
     surface_FunElim(surface_Universe, surface_Universe)}

ExpectedTypes ==
    {semantics_Universe,
     semantics_FunType("a", semantics_Universe, Closure_new(<<>>, core_Universe))}

InitElab ==
    /\ item_exprs = <<>>
    /\ meta_exprs = <<>>
    /\ local_exprs = <<>>
    /\ overflow_checks = FALSE
    /\ term0 = surface_Universe
    /\ term1 = None
    /\ value0 = Context_new
    /\ value1 = Context_new
    /\ op = "init"
    /\ out = None

\* context.check(surface_term, expected_type)
Check(surface_term, expected_type) ==
    /\ Len(value0.env) < MaxStack
    /\ Len(value0.messages) < MaxMessages
    /\ op' = "check"
    /\ term0' = surface_term
    /\ term1' = expected_type
    /\ value1' = value0
    /\ value0' = elab_check(value0, surface_term, expected_type).ctx
    /\ out' = elab_check(value0, surface_term, expected_type).res
    /\ UNCHANGED <<item_exprs, meta_exprs, local_exprs, overflow_checks>>

\* context.synth(surface_term)
Synth(surface_term) ==
    /\ Len(value0.env) < MaxStack
    /\ Len(value0.messages) < MaxMessages
    /\ op' = "synth"
    /\ term0' = surface_term
    /\ term1' = None
    /\ value1' = value0
    /\ value0' = elab_synth(value0, surface_term).ctx
    /\ out' = elab_synth(value0, surface_term).res
    /\ UNCHANGED <<item_exprs, meta_exprs, local_exprs, overflow_checks>>

NextElab ==
    \/ \E surface_term \in SurfaceTerms, expected_type \in ExpectedTypes :
          Check(surface_term, expected_type)
    \/ \E surface_term \in SurfaceTerms : Synth(surface_term)

SpecElab == InitElab /\ [][NextElab]_vars

\* C23: in every reachable state of the elaboration context, after any
\* sequence of successful or failed check and synth calls, the stack of
\* (name, type) pairs and the stack of values have the same length.
C23_StacksSameLength == Len(value0.types) = Len(value0.env)

\* a failed check has left a binding behind, and a successful call has
\* pushed and popped one after it
C23_Witness ==
    /\ op = "synth"
    /\ term0 = TypeToType
    /\ out # None
    /\ Len(value0.env) = 1
    /\ Len(value0.types) = 1
    /\ Len(value0.messages) = 1

\* the core term a successful check or synth has returned
Elaborated == IF op = "check" THEN out.val ELSE out.val.term

\* C24: for a surface let (let x : T = d in x) that check or synth has
\* elaborated, normalising the core term built gives the same term as
\* normalising the elaboration of d: evaluation binds x to the value of the
\* elaborated definition.
C24_LetBindsDefinition ==
    (/\ op \in {"check", "synth"}
     /\ term0.tag = "Let"
     /\ term0.body_expr = surface_Var(term0.name)
     /\ out # None)
    => core_normalise(value1.env, Elaborated)
         = core_normalise(value1.env, let_def(value1, term0).res.val.def_expr)

\* C28: check and synth leave the binding stacks of the context with the
\* same entries as on entry, when they return Some and when they return
\* None.
C28_StacksRestored ==
    op \in {"check", "synth"} =>
        /\ value0.types = value1.types
        /\ value0.env = value1.env

(***************************************************************************)
(* src/check.rs: subtyping, kinding and typing of the binary data          *)
(* description language.  Source spans are left out of types, expressions  *)
(* and errors.  `unimplemented!()` is an Abort.                            *)
(***************************************************************************)

\* ast::Type, ast::Field and ast::Expr
Type_Bool == [tag |-> "Bool"]
Type_SingletonUInt(n) == [tag |-> "SingletonUInt", n |-> n]
Type_UInt(size) == [tag |-> "UInt", size |-> size]
Type_SInt(size) == [tag |-> "SInt", size |-> size]
Type_Float(size) == [tag |-> "Float", size |-> size]
Type_Var(name) == [tag |-> "Var", name |-> name]
Type_Union(tys) == [tag |-> "Union", tys |-> tys]
Type_Struct(fields) == [tag |-> "Struct", fields |-> fields]
Type_Array(ty, size) == [tag |-> "Array", ty |-> ty, size |-> size]
Type_Where(ty, param, pred) == [tag |-> "Where", ty |-> ty, param |-> param, pred |-> pred]
Field(name, ty) == [name |-> name, ty |-> ty]
Expr_Bool(b) == [tag |-> "Const", const |-> "Bool", bool |-> b]
Expr_UInt(value) == [tag |-> "Const", const |-> "UInt", val |-> value]
Expr_Var(name) == [tag |-> "Var", name |-> name]
Expr_Unop(unop, value) == [tag |-> "Unop", op |-> unop, value |-> value]
Expr_Binop(binop, lhs, rhs) == [tag |-> "Binop", op |-> binop, lhs |-> lhs, rhs |-> rhs]
Kind_Type == "Type"

\* KindError and TypeError
KindError_Type(src) == [tag |-> "Type", src |-> src]
UnboundType(name) == [tag |-> "UnboundType", name |-> name]
ArraySizeExpectedUInt(ty) == [tag |-> "ArraySizeExpectedUInt", ty |-> ty]
WherePredicateExpectedBool(ty) == [tag |-> "WherePredicateExpectedBool", ty |-> ty]
UnboundVariable(name) == [tag |-> "UnboundVariable", name |-> name]
UnexpectedUnaryOperand(unop, ty) == [tag |-> "UnexpectedUnaryOperand", op |-> unop, ty |-> ty]
UnexpectedBinaryLhs(ty) == [tag |-> "UnexpectedBinaryLhs", ty |-> ty]
UnexpectedBinaryRhs(ty) == [tag |-> "UnexpectedBinaryRhs", ty |-> ty]

IsOk(x) == x.tag = "Ok"

\* env::Env: the named types and the bindings of a scope and of its
\* parents, oldest first.  A child scope sees the bindings of its parent
\* and its own bindings stay its own.
Env_default == [tys |-> {}, bindings |-> <<>>]
Env_extend(env) == env
add_ty(env, name) == [env EXCEPT !.tys = env.tys \cup {name}]
add_binding(env, name, ty) ==
    [env EXCEPT !.bindings = Append(env.bindings, Field(name, ty))]
lookup_ty(env, name) == IF name \in env.tys THEN Some(name) ELSE None
lookup_binding(env, name) ==
    IF \E k \in 1..Len(env.bindings) : env.bindings[k].name = name
    THEN Some(env.bindings[CHOOSE k \in 1..Len(env.bindings) :
                             /\ env.bindings[k].name = name
                             /\ \A j \in (k + 1)..Len(env.bindings) :
                                   env.bindings[j].name # name].ty)
    ELSE None

\* is_subtype
is_subtype(sty, ty) ==
    \/ sty = ty
    \/ sty.tag = "SingletonUInt" /\ ty.tag = "SingletonUInt" /\ sty.n <= ty.n
    \/ sty.tag = "SingletonUInt" /\ ty.tag \in {"UInt", "SInt"}

\* an arithmetic rule that gives the type of the left operand
arith_lhs_type(lhs_ty, rhs_ty) ==
    LET unknown_int == Type_SingletonUInt(0)
    IN  IF is_subtype(lhs_ty, rhs_ty) /\ is_subtype(unknown_int, rhs_ty) THEN Ok(lhs_ty)
        ELSE IF is_subtype(rhs_ty, lhs_ty) /\ is_subtype(unknown_int, lhs_ty)
        THEN Ok(lhs_ty)
        ELSE Abort("unimplemented")

\* type_of, the T-CMP-... arm
type_of_cmp(lhs_ty, rhs_ty) ==
    LET unknown_int == Type_SingletonUInt(0)
    IN  IF is_subtype(lhs_ty, rhs_ty) /\ is_subtype(unknown_int, rhs_ty) THEN Ok(Type_Bool)
        ELSE IF is_subtype(rhs_ty, lhs_ty) /\ is_subtype(unknown_int, lhs_ty)
        THEN Ok(Type_Bool)
        ELSE Abort("unimplemented")

\* type_of, the T-ARITH-... arm
type_of_arith(lhs_ty, rhs_ty) ==
    LET unknown_int == Type_SingletonUInt(0)
    IN  IF is_subtype(lhs_ty, rhs_ty) /\ is_subtype(unknown_int, rhs_ty) THEN Ok(rhs_ty)
        ELSE IF is_subtype(rhs_ty, lhs_ty) /\ is_subtype(unknown_int, lhs_ty)
        THEN Ok(lhs_ty)
        ELSE Abort("unimplemented")

BinopRel == {"Or", "And"}
BinopCmp == {"Eq", "Ne", "Le", "Lt", "Gt", "Ge"}
BinopArith == {"Add", "Sub", "Mul", "Div"}

\* type_of
RECURSIVE type_of(_, _)
type_of(env, expr) ==
    CASE expr.tag = "Const" ->
           IF expr.const = "Bool" THEN Ok(Type_Bool) ELSE Ok(Type_SingletonUInt(expr.val))
      [] expr.tag = "Var" ->
           IF IsNone(lookup_binding(env, expr.name)) THEN Err(UnboundVariable(expr.name))
           ELSE Ok(lookup_binding(env, expr.name).val)
      [] expr.tag = "Unop" ->
           LET value_ty == type_of(env, expr.value)
           IN  IF ~IsOk(value_ty) THEN value_ty
               ELSE IF expr.op = "Not"
               THEN IF value_ty.val = Type_Bool THEN Ok(Type_Bool)
                    ELSE Err(UnexpectedUnaryOperand(expr.op, value_ty.val))
               ELSE IF is_subtype(Type_SingletonUInt(0), value_ty.val) THEN value_ty
                    ELSE Err(UnexpectedUnaryOperand(expr.op, value_ty.val))
      [] expr.tag = "Binop" ->
           LET lhs_ty == type_of(env, expr.lhs)
               rhs_ty == type_of(env, expr.rhs)
           IN  IF ~IsOk(lhs_ty) THEN lhs_ty
               ELSE IF ~IsOk(rhs_ty) THEN rhs_ty
               ELSE IF expr.op \in BinopRel
               THEN IF lhs_ty.val # Type_Bool THEN Err(UnexpectedBinaryLhs(lhs_ty.val))
                    ELSE IF rhs_ty.val # Type_Bool THEN Err(UnexpectedBinaryRhs(rhs_ty.val))
                    ELSE Ok(Type_Bool)
               ELSE IF expr.op \in BinopCmp THEN type_of_cmp(lhs_ty.val, rhs_ty.val)
               ELSE type_of_arith(lhs_ty.val, rhs_ty.val)

\* `?` on a Result<_, TypeError> inside kind_of: From<TypeError> for KindError
FromTypeError(result) == IF IsErr(result) THEN Err(KindError_Type(result.err)) ELSE result

RECURSIVE kind_of(_, _)
RECURSIVE kind_of_union(_, _, _)
RECURSIVE kind_of_fields(_, _, _)
RECURSIVE kind_of_fields_bound_first(_, _, _)

\* a struct loop that binds a field before its type is kinded
kind_of_fields_bound_first(inner_env, fields, i) ==
    IF i > Len(fields) THEN Ok(Kind_Type)
    ELSE LET bound == add_binding(inner_env, fields[i].name, fields[i].ty)
             kind == kind_of(bound, fields[i].ty)
         IN  IF ~IsOk(kind) THEN kind
             ELSE kind_of_fields_bound_first(bound, fields, i + 1)

\* kind_of, the loop of the K-SUM arm from the i-th type on
kind_of_union(env, tys, i) ==
    IF i > Len(tys) THEN Ok(Kind_Type)
    ELSE LET kind == kind_of(env, tys[i])
         IN  IF ~IsOk(kind) THEN kind ELSE kind_of_union(env, tys, i + 1)

\* kind_of, the loop of the K-DEPENDENT-PAIR arm from the i-th field on
kind_of_fields(inner_env, fields, i) ==
    IF i > Len(fields) THEN Ok(Kind_Type)
    ELSE LET kind == kind_of(inner_env, fields[i].ty)
         IN  IF ~IsOk(kind) THEN kind
             ELSE kind_of_fields(add_binding(inner_env, fields[i].name, fields[i].ty),
                                 fields, i + 1)

\* kind_of
kind_of(env, ty) ==
    CASE ty.tag \in {"Bool", "SingletonUInt", "UInt", "SInt", "Float"} -> Ok(Kind_Type)
      [] ty.tag = "Var" ->
           IF IsNone(lookup_ty(env, ty.name)) THEN Err(UnboundType(ty.name))
           ELSE Ok(Kind_Type)
      [] ty.tag = "Union" -> kind_of_union(env, ty.tys, 1)
      [] ty.tag = "Struct" -> kind_of_fields(Env_extend(env), ty.fields, 1)
      [] ty.tag = "Array" ->
           LET kind == kind_of(env, ty.ty)
               expr_ty == FromTypeError(type_of(env, ty.size))
           IN  IF ~IsOk(kind) THEN kind
               ELSE IF ~IsOk(expr_ty) THEN expr_ty
               ELSE IF expr_ty.val.tag \in {"SingletonUInt", "UInt"} THEN Ok(Kind_Type)
               ELSE Err(ArraySizeExpectedUInt(expr_ty.val))
      [] ty.tag = "Where" ->
           LET kind == kind_of(env, ty.ty)
               inner_env == add_binding(Env_extend(env), ty.param, ty.ty)
               pred_ty == FromTypeError(type_of(env, ty.pred))
           IN  IF ~IsOk(kind) THEN kind
               ELSE IF ~IsOk(pred_ty) THEN pred_ty
               ELSE IF pred_ty.val = Type_Bool THEN Ok(Kind_Type)
               ELSE Err(WherePredicateExpectedBool(pred_ty.val))

(***************************************************************************)
(* The checker at work on one environment: definitions are checked and     *)
(* bindings added, then types are kinded and expressions typed.  value0    *)
(* is the caller's environment, value1 the environment as it was before    *)
(* the last call, term0 the type or expression and out the Result.         *)
(* kind_of and type_of hold the environment by shared reference.           *)
(***************************************************************************)

MaxBindings == 1
MaxFields == 2

u8 == Type_UInt(8)
BindingNames == {"len", "x"}
BindingTypes == {Type_UInt(32), Type_SInt(8), Type_Bool}

Operands ==
    {Expr_UInt(1), Expr_UInt(2), Expr_Var("len"), Expr_Var("x"), Expr_Bool(TRUE)}

CheckedExprs ==
    Operands
    \cup {Expr_Binop(binop, lhs, rhs) :
             binop \in {"Add", "Mul"}, lhs \in Operands, rhs \in Operands}
    \cup {Expr_Binop("Lt", Expr_Var("len"), Expr_UInt(1)),
          Expr_Binop("Ge", Expr_Bool(TRUE), Expr_UInt(1)),
          Expr_Binop("And", Expr_Bool(TRUE), Expr_Var("x")),
          Expr_Binop("Or", Expr_UInt(1), Expr_Bool(TRUE))}
    \cup {Expr_Unop(unop, value) : unop \in {"Not", "Neg"}, value \in Operands}

StructFields ==
    {Field("len", u8), Field("data", Type_Array(u8, Expr_Var("len"))),
     Field("len", Type_Array(u8, Expr_Var("len"))), Field("x", Type_Var("Foo"))}

Structs ==
    {Type_Struct(fields) : fields \in UNION {[1..n -> StructFields] : n \in 0..MaxFields}}

Predicates ==
    {Expr_Binop("Lt", Expr_Var("x"), Expr_UInt(1)), Expr_Var("x"), Expr_Bool(TRUE),
     Expr_UInt(1), Expr_Binop("Eq", Expr_Var("len"), Expr_UInt(1))}

CheckedTypes ==
    Structs
    \cup {Type_Where(ty, "x", pred) :
             ty \in {Type_UInt(32), Type_Bool, Type_Var("Foo")}, pred \in Predicates}
    \cup {Type_Bool, Type_SingletonUInt(1), u8, Type_SInt(16), Type_Float(32),
          Type_Var("Foo"), Type_Var("Header"),
          Type_Union(<<u8, Type_UInt(16), Type_SInt(32)>>),
          Type_Union(<<u8, Type_Var("Foo"), Type_SInt(32)>>),
          Type_Array(u8, Expr_UInt(16)), Type_Array(u8, Expr_Var("len")),
          Type_Array(Type_Var("Foo"), Expr_UInt(1))}

InitKind ==
    /\ item_exprs = <<>>
    /\ meta_exprs = <<>>
    /\ local_exprs = <<>>
    /\ overflow_checks = FALSE
    /\ term0 = Type_Bool
    /\ term1 = None
    /\ value0 = Env_default
    /\ value1 = Env_default
    /\ op = "init"
    /\ out = None

\* Env::check_defs on one definition
CheckDefs(name, ty) ==
    /\ op' = "check_defs"
    /\ term0' = ty
    /\ term1' = None
    /\ value1' = value0
    /\ out' = kind_of(value0, ty)
    /\ value0' = IF IsOk(kind_of(value0, ty)) THEN add_ty(value0, name) ELSE value0
    /\ UNCHANGED <<item_exprs, meta_exprs, local_exprs, overflow_checks>>

\* env.add_binding(name, ty) by the caller
AddBinding(name, ty) ==
    /\ Len(value0.bindings) < MaxBindings
    /\ op' = "add_binding"
    /\ value1' = value0
    /\ value0' = add_binding(value0, name, ty)
    /\ UNCHANGED <<item_exprs, meta_exprs, local_exprs, overflow_checks, term0, term1,
                   out>>

\* kind_of(&env, &ty)
KindOf(ty) ==
    /\ op' = "kind_of"
    /\ term0' = ty
    /\ term1' = None
    /\ value1' = value0
    /\ out' = kind_of(value0, ty)
    /\ UNCHANGED <<item_exprs, meta_exprs, local_exprs, overflow_checks, value0>>

\* type_of(&env, &expr)
TypeOf(expr) ==
    /\ op' = "type_of"
    /\ term0' = expr
    /\ term1' = None
    /\ value1' = value0
    /\ out' = type_of(value0, expr)
    /\ UNCHANGED <<item_exprs, meta_exprs, local_exprs, overflow_checks, value0>>

NextKind ==
    \/ \E ty \in {u8, Type_Var("Foo")} : CheckDefs("Header", ty)
    \/ \E name \in BindingNames, ty \in BindingTypes : AddBinding(name, ty)
    \/ \E ty \in CheckedTypes : KindOf(ty)
    \/ \E expr \in CheckedExprs : TypeOf(expr)

SpecKind == InitKind /\ [][NextKind]_vars

\* C25: kind_of of a constrained type { x:T | b } types the predicate in
\* the environment extended with x:T: it is Ok(Kind::Type) whenever T has
\* kind Type and b has type Bool with x in scope, also when x is not bound
\* in the outer environment, and WherePredicateExpectedBool when b has
\* another type.
C25_WherePredicateScope ==
    (/\ op = "kind_of"
     /\ term0.tag = "Where"
     /\ IsOk(kind_of(value1, term0.ty))
     /\ IsOk(type_of(add_binding(value1, term0.param, term0.ty), term0.pred)))
    => LET pred_ty == type_of(add_binding(value1, term0.param, term0.ty), term0.pred).val
       IN  IF pred_ty = Type_Bool THEN out = Ok(Kind_Type)
           ELSE out = Err(WherePredicateExpectedBool(pred_ty))

\* the larger of two numbers
Larger(n, m) == IF n >= m THEN n ELSE m

\* C26: type_of of an arithmetic binary operation on two typed operands is
\* independent of the operand order and is the operand type that is the
\* supertype: a UInt variable and a literal give the UInt type in both
\* orders, two operands of the same UInt type give that type, two literals
\* n and m give SingletonUInt(max(n, m)).
C26_ArithSupertype ==
    (/\ op = "type_of"
     /\ term0.tag = "Binop"
     /\ term0.op \in BinopArith
     /\ IsOk(type_of(value0, term0.lhs))
     /\ IsOk(type_of(value0, term0.rhs)))
    => LET lhs_ty == type_of(value0, term0.lhs).val
           rhs_ty == type_of(value0, term0.rhs).val
       IN  /\ out = type_of(value0, Expr_Binop(term0.op, term0.rhs, term0.lhs))
           /\ IsOk(out) =>
                 /\ out.val \in {lhs_ty, rhs_ty}
                 /\ is_subtype(lhs_ty, out.val)
                 /\ is_subtype(rhs_ty, out.val)
           /\ (lhs_ty.tag = "UInt" /\ rhs_ty.tag = "SingletonUInt") => out = Ok(lhs_ty)
           /\ (lhs_ty.tag = "SingletonUInt" /\ rhs_ty.tag = "UInt") => out = Ok(rhs_ty)
           /\ (lhs_ty.tag = "UInt" /\ rhs_ty = lhs_ty) => out = Ok(lhs_ty)
           /\ (lhs_ty.tag = "SingletonUInt" /\ rhs_ty.tag = "SingletonUInt") =>
                 out = Ok(Type_SingletonUInt(Larger(lhs_ty.n, rhs_ty.n)))

\* 1 * len with len : UInt(32)
C26_Witness ==
    /\ op = "type_of"
    /\ term0 = Expr_Binop("Mul", Expr_UInt(1), Expr_Var("len"))
    /\ lookup_binding(value0, "len") = Some(Type_UInt(32))
    /\ out = Ok(Type_UInt(32))

\* the caller's environment with the first n fields bound, in order
WithFields(env, fields, n) ==
    [env EXCEPT !.bindings = env.bindings \o SubSeq(fields, 1, n)]

\* C27: kind_of of a struct type kinds each field's type in the caller's
\* environment extended with exactly the fields that precede it, in order,
\* stops at the first failing field, and leaves the caller's environment
\* without any field binding: struct { len: u8, data: [u8; len] } has kind
\* Type, a field that refers to itself or to a later field is unbound.
C27_StructFieldsScope ==
    (op = "kind_of" /\ term0.tag = "Struct")
    => LET fields == term0.fields
           FieldKind(i) == kind_of(WithFields(value1, fields, i - 1), fields[i].ty)
           Failing == {i \in 1..Len(fields) : ~IsOk(FieldKind(i))}
       IN  /\ Failing = {} => out = Ok(Kind_Type)
           /\ \A i \in Failing : (\A j \in Failing : i <= j) => out = FieldKind(i)
           /\ value0 = value1
           /\ (/\ IsNone(lookup_binding(value1, "len"))
               /\ fields # <<>>
               /\ fields[1] \in {Field("len", Type_Array(u8, Expr_Var("len"))),
                                 Field("data", Type_Array(u8, Expr_Var("len")))})
              => out = Err(KindError_Type(UnboundVariable("len")))

\* struct { len: u8, data: [u8; len] } where the caller has no len
C27_Witness ==
    /\ op = "kind_of"
    /\ term0 = Type_Struct(<<Field("len", u8),
                             Field("data", Type_Array(u8, Expr_Var("len")))>>)
    /\ IsNone(lookup_binding(value0, "len"))
    /\ Len(value0.bindings) = 1
    /\ out = Ok(Kind_Type)

(***************************************************************************)
(* ConversionEnv::is_equal_telescopes, statement by statement.  Here       *)
(* local_exprs is ConversionEnv::local_exprs, a length; value0 and value1  *)
(* are the telescopes of the caller, term0 holds the local variables of    *)
(* the call (initial_local_len, telescope0, telescope1), term1 the local   *)
(* length the caller had and out what the call returns.                    *)
(***************************************************************************)

MaxTelescope == 2

\* EnvLen::truncate, with a truncate that leaves the length alone before it
truncate_kept(local_len, len) == local_len
EnvLen_truncate(local_len, len) == len

TelescopeEntries == {Term_Universe, Term_LocalVar(0), Term_LocalVar(1), Term_MetaVar(0)}

TelescopesOn(locals) ==
    {Telescope(locals, terms) :
        terms \in UNION {[1..n -> TelescopeEntries] : n \in 0..MaxTelescope}}

InitTelescopes ==
    /\ item_exprs = <<Lit(1)>>
    /\ meta_exprs \in {NoSolutions, FirstSolved}
    /\ overflow_checks = FALSE
    /\ local_exprs \in 1..MaxLocals
    /\ value0 \in TelescopesOn([i \in 1..local_exprs |-> local_var(i - 1)])
    /\ value1 \in TelescopesOn([i \in 1..local_exprs |-> local_var(i - 1)])
    /\ term0 = None
    /\ term1 = local_exprs
    /\ op = "init"
    /\ out = None

\* the length test, then the three `let`s
TelescopesBegin ==
    /\ op = "init"
    /\ IF Len(value0.terms) # Len(value1.terms)
       THEN op' = "return" /\ out' = Ok(FALSE) /\ term0' = term0
       ELSE /\ op' = "loop"
            /\ out' = out
            /\ term0' = [initial_local_len |-> local_exprs, telescope0 |-> value0,
                         telescope1 |-> value1]
    /\ UNCHANGED <<item_exprs, meta_exprs, local_exprs, term1, value0, value1,
                   overflow_checks>>

\* one turn of the `while let`: both telescopes split, the values compared,
\* the same fresh variable bound in both continuations
TelescopesStep ==
    /\ op = "loop"
    /\ term0.telescope0.terms # <<>> /\ term0.telescope1.terms # <<>>
    /\ LET v0 == split_telescope(Env, term0.telescope0)
           v1 == split_telescope(Env, term0.telescope1)
           equal == is_equal(Env, local_exprs, v0, v1)
           var == local_var(next_level(local_exprs))
       IN  IF IsAbort(v0) \/ IsAbort(v1)
           THEN /\ op' = "abort"
                /\ out' = IF IsAbort(v0) THEN v0 ELSE v1
                /\ UNCHANGED <<local_exprs, term0>>
           ELSE IF IsAbort(equal)
           THEN op' = "abort" /\ out' = equal /\ UNCHANGED <<local_exprs, term0>>
           ELSE IF ~equal.val
           THEN /\ local_exprs' = EnvLen_truncate(local_exprs, term0.initial_local_len)
                /\ op' = "return"
                /\ out' = Ok(FALSE)
                /\ term0' = term0
           ELSE /\ term0' = [term0 EXCEPT
                               !.telescope0 = next_telescope(term0.telescope0, var),
                               !.telescope1 = next_telescope(term0.telescope1, var)]
                /\ local_exprs' = local_exprs + 1
                /\ op' = "loop"
                /\ out' = out
    /\ UNCHANGED <<item_exprs, meta_exprs, term1, value0, value1, overflow_checks>>

\* a split gives None: the loop is left
TelescopesEnd ==
    /\ op = "loop"
    /\ term0.telescope0.terms = <<>> \/ term0.telescope1.terms = <<>>
    /\ local_exprs' = EnvLen_truncate(local_exprs, term0.initial_local_len)
    /\ op' = "return"
    /\ out' = Ok(TRUE)
    /\ UNCHANGED <<item_exprs, meta_exprs, term0, term1, value0, value1,
                   overflow_checks>>

NextTelescopes == TelescopesBegin \/ TelescopesStep \/ TelescopesEnd

SpecTelescopes == InitTelescopes /\ [][NextTelescopes]_vars

\* the telescope after i - 1 entries were peeled, each with the fresh
\* variable of its level bound: len, len + 1, ...
Peeled(telescope, len, i) ==
    [telescope EXCEPT
        !.local_exprs = @ \o [k \in 1..(i - 1) |-> local_var(len + k - 1)],
        !.terms = SubSeq(@, i, Len(@))]

\* are the i-th peeled values of the caller's telescopes equal
PairEqual(i) ==
    LET v0 == split_telescope(Env, Peeled(value0, term1, i))
        v1 == split_telescope(Env, Peeled(value1, term1, i))
    IN  IF IsAbort(v0) \/ IsAbort(v1) THEN FALSE
        ELSE is_equal(Env, term1 + i - 1, v0, v1) = Ok(TRUE)

\* C29: is_equal_telescopes returns true exactly when the telescopes have
\* the same number of terms and every pair of values peeled in lock-step,
\* with the same fresh variables bound, is equal; it stops at the first
\* unequal pair; on every exit path the local length of the conversion
\* environment is what it was before the call.
C29_TelescopesLockStep ==
    op = "return" =>
        LET n == Len(value0.terms)
            Unequal == {i \in 1..n : ~PairEqual(i)}
        IN  /\ out \in {Ok(TRUE), Ok(FALSE)}
            /\ out = Ok(TRUE) <=>
                  (Len(value1.terms) = n /\ Unequal = {})
            /\ (out = Ok(FALSE) /\ Len(value1.terms) = n) =>
                  \E i \in Unequal :
                     /\ \A j \in Unequal : i <= j
                     /\ Len(term0.telescope0.terms) = n - i + 1
                     /\ Len(term0.telescope1.terms) = n - i + 1
            /\ local_exprs = term1

\* the second pair is unequal: one variable was pushed and then truncated
C29_Witness ==
    /\ op = "return"
    /\ out = Ok(FALSE)
    /\ value0.terms = <<Term_Universe, Term_LocalVar(0)>>
    /\ value1.terms = <<Term_Universe, Term_LocalVar(1)>>
    /\ Len(term0.telescope0.terms) = 1
    /\ local_exprs = 2

(***************************************************************************)
(* Conversion checking in both argument orders, in fathom and in           *)
(* rust-minimal.  Values come from the evaluation of core terms in an      *)
(* environment of local variables; the length of local_exprs is the        *)
(* environment length of the conversion.                                   *)
(***************************************************************************)

\* function literals whose body cannot be evaluated
SymTerms ==
    CoreTerms
    \cup {Term_FunLit(Term_LocalVar(MaxLocals + 1)),
          Term_FunLit(Term_FunApp(U8Lit(1), Term_LocalVar(0))),
          Term_FunType(Term_Universe, Term_LocalVar(MaxLocals + 1))}

MinimalTerms ==
    {core_Universe, core_Var(0), core_Var(1),
     core_FunElim(core_Var(0), core_Universe),
     core_FunElim(core_Var(0), core_Var(0)),
     core_FunIntro("x", core_Var(0)),
     core_FunIntro("x", core_Var(MaxLocals + 1)),
     core_FunIntro("x", core_FunElim(core_Universe, core_Var(0))),
     core_FunIntro("x", core_FunElim(core_Var(1), core_Var(0))),
     core_FunType("x", core_Universe, core_Universe),
     core_FunType("x", core_Universe, core_Var(0)),
     core_FunType("x", core_Universe, core_Var(MaxLocals + 1)),
     core_Let("x", core_Universe, core_Universe, core_Var(0))}

\* the environment of rust-minimal with the same length
MinimalEnv == [i \in 1..Len(local_exprs) |-> semantics_Stuck(i - 1, <<>>)]

InitSym ==
    /\ item_exprs = <<Lit(1)>>
    /\ meta_exprs \in MetaTables
    /\ local_exprs \in {[i \in 1..n |-> local_var(i - 1)] : n \in 0..MaxLocals}
    /\ overflow_checks = FALSE
    /\ term0 = Term_Universe
    /\ term1 = Term_Universe
    /\ value0 = Value_Universe
    /\ value1 = Value_Universe
    /\ op = "init"
    /\ out = None

\* fathom: EvalEnv::eval of both terms, then ConversionEnv::is_equal
ConvertValues(t0, t1) ==
    /\ op = "init"
    /\ ~IsAbort(eval(Env, local_exprs, t0))
    /\ ~IsAbort(eval(Env, local_exprs, t1))
    /\ term0' = t0
    /\ term1' = t1
    /\ value0' = eval(Env, local_exprs, t0)
    /\ value1' = eval(Env, local_exprs, t1)
    /\ out' = is_equal(Env, Len(local_exprs), value0', value1')
    /\ op' = "is_equal"
    /\ UNCHANGED <<item_exprs, meta_exprs, local_exprs, overflow_checks>>

\* rust-minimal: eval of both terms, then is_equal
MinimalConvert(t0, t1) ==
    /\ op = "init"
    /\ ~IsErr(core_eval(MinimalEnv, t0))
    /\ ~IsErr(core_eval(MinimalEnv, t1))
    /\ term0' = t0
    /\ term1' = t1
    /\ value0' = core_eval(MinimalEnv, t0)
    /\ value1' = core_eval(MinimalEnv, t1)
    /\ out' = core_is_equal(Len(local_exprs), value0', value1')
    /\ op' = "minimal_is_equal"
    /\ UNCHANGED <<item_exprs, meta_exprs, local_exprs, overflow_checks>>

NextSym ==
    \/ \E t0 \in SymTerms, t1 \in SymTerms : ConvertValues(t0, t1)
    \/ \E t0 \in MinimalTerms, t1 \in MinimalTerms : MinimalConvert(t0, t1)

SpecSym == InitSym /\ [][NextSym]_vars

\* the outcome of the last comparison with its arguments exchanged
Exchanged ==
    IF op = "is_equal" THEN is_equal(Env, Len(local_exprs), value1, value0)
    ELSE core_is_equal(Len(local_exprs), value1, value0)

Failed(outcome) == IsAbort(outcome) \/ IsErr(outcome)

\* C30: is_equal(v0, v1) and is_equal(v1, v0) have the same outcome: both
\* true, both false, or both abort with the same error.
C30_IsEqualSymmetric ==
    op \in {"is_equal", "minimal_is_equal"} => out = Exchanged

\* C30, as it holds: is_equal(v0, v1) fails exactly when is_equal(v1, v0)
\* fails, and when they return they return the same boolean; the error of
\* a failure is the one met first and may differ between the two orders.
C30_IsEqualSymmetricResult ==
    op \in {"is_equal", "minimal_is_equal"} =>
        /\ Failed(out) <=> Failed(Exchanged)
        /\ ~Failed(out) => out = Exchanged

\* eta-conversion in rust-minimal: fun x => f x against f
C30_Witness ==
    /\ op = "minimal_is_equal"
    /\ value0.tag = "FunIntro"
    /\ value1 = semantics_Stuck(0, <<>>)
    /\ out = Ok(TRUE)
    /\ Exchanged = Ok(TRUE)

====
